---- MODULE Spec2Model ----
(***************************************************************************)
(* A model of riot-rank-bot: the roster cache (load_id_list), the Riot ID  *)
(* parser, the rank fetcher (get_player_rank), the chunked batch run and   *)
(* the daily scheduling loop (daily_refresh_task) started from on_ready.   *)
(*                                                                         *)
(* Text is modelled as a sequence of one-character strings, so that trim,  *)
(* split, lower-casing and substring tests are computed, not assumed.      *)
(* Time is in whole seconds of UTC, counted from a UTC midnight.           *)
(***************************************************************************)
EXTENDS Integers, Sequences, FiniteSets, Bags, TLC

VARIABLES
    now,            \* the wall clock, seconds of UTC
    file,           \* the roster file: [ok, readable, mtime, lines, faults]
    _id_list,       \* bot.py global: the cached roster entries
    _id_list_mtime, \* bot.py global: the mtime the cache was read under
    task,           \* daily_refresh_task instances
    ready,          \* the on_ready handler
    auto,           \* the autocomplete_ids handler
    remote,         \* the remote service: identity -> response
    channel,        \* REPORT_CHANNEL_ID: "unset" or "set"
    report,         \* the document last written to rank_list_daily.html
    call            \* one direct call of get_player_rank

vars == <<now, file, _id_list, _id_list_mtime, task, ready, auto,
          remote, channel, report, call>>

(***************************************************************************)
(* Text                                                                    *)
(***************************************************************************)
\* Python's None where a text is expected: no text has a long character
None == <<"None">>

UpperCase == <<"A","B","C","D","E","F","G","H","I","J","K","L","M",
               "N","O","P","Q","R","S","T","U","V","W","X","Y","Z">>
LowerCase == <<"a","b","c","d","e","f","g","h","i","j","k","l","m",
               "n","o","p","q","r","s","t","u","v","w","x","y","z">>

\* str.lower() of one character
LowerChar(c) ==
    IF \E k \in DOMAIN UpperCase : UpperCase[k] = c
    THEN LowerCase[CHOOSE k \in DOMAIN UpperCase : UpperCase[k] = c]
    ELSE c

\* str.lower()
Lower(s) == [k \in DOMAIN s |-> LowerChar(s[k])]

\* the Python test  sub in s
Contains(sub, s) ==
    \E k \in 0..(Len(s) - Len(sub)) : SubSeq(s, k + 1, k + Len(sub)) = sub

IsSpace(c) == c \in {" ", "\n", "\t"}

\* str.strip()
Strip(s) ==
    IF \A k \in DOMAIN s : IsSpace(s[k])
    THEN <<>>
    ELSE LET first == CHOOSE k \in DOMAIN s :
                          /\ ~IsSpace(s[k])
                          /\ \A j \in 1..(k - 1) : IsSpace(s[j])
             last  == CHOOSE k \in DOMAIN s :
                          /\ ~IsSpace(s[k])
                          /\ \A j \in (k + 1)..Len(s) : IsSpace(s[j])
         IN  SubSeq(s, first, last)

\* str.startswith(p)
StartsWith(s, p) == Len(p) =< Len(s) /\ SubSeq(s, 1, Len(p)) = p

\* str.split('#'): the pieces between the separators, in order
RECURSIVE Split(_)
Split(s) ==
    IF \A k \in DOMAIN s : s[k] # "#"
    THEN <<s>>
    ELSE LET p == CHOOSE k \in DOMAIN s :
                      s[k] = "#" /\ \A j \in 1..(k - 1) : s[j] # "#"
         IN  <<SubSeq(s, 1, p - 1)>> \o Split(SubSeq(s, p + 1, Len(s)))

\* (mutant) the two parts are returned as they stand, untrimmed
parse_riot_id_untrimmed(line) ==
    LET l == Strip(line) IN
    IF l = <<>>
    THEN <<None, None>>
    ELSE IF Contains(<<"#">>, l)
         THEN LET parts == Split(l) IN <<parts[1], parts[2]>>
         ELSE <<None, None>>

\* lol_rank_tracker.parse_riot_id; (None, None) is <<None, None>>
parse_riot_id(line) ==
    LET l == Strip(line) IN
    IF l = <<>>
    THEN <<None, None>>
    ELSE IF Contains(<<"#">>, l)
         THEN LET parts == Split(l) IN <<Strip(parts[1]), Strip(parts[2])>>
         ELSE <<None, None>>

(***************************************************************************)
(* The rank fetcher                                                        *)
(***************************************************************************)
\* (mutant) the table of the time before the EMERALD tier
TIER_WEIGHT_without_emerald(tier) ==
    CASE tier = "CHALLENGER"  -> 9
      [] tier = "GRANDMASTER" -> 8
      [] tier = "MASTER"      -> 7
      [] tier = "DIAMOND"     -> 6
      [] tier = "PLATINUM"    -> 4
      [] tier = "GOLD"        -> 3
      [] tier = "SILVER"      -> 2
      [] tier = "BRONZE"      -> 1
      [] tier = "IRON"        -> 0
      [] OTHER                -> 0

\* TIER_WEIGHT.get(tier, 0)
TIER_WEIGHT(tier) ==
    CASE tier = "CHALLENGER"  -> 9
      [] tier = "GRANDMASTER" -> 8
      [] tier = "MASTER"      -> 7
      [] tier = "DIAMOND"     -> 6
      [] tier = "EMERALD"     -> 5
      [] tier = "PLATINUM"    -> 4
      [] tier = "GOLD"        -> 3
      [] tier = "SILVER"      -> 2
      [] tier = "BRONZE"      -> 1
      [] tier = "IRON"        -> 0
      [] OTHER                -> 0

\* RANK_WEIGHT.get(rank, 0)
RANK_WEIGHT(rank) ==
    CASE rank = "I"   -> 4
      [] rank = "II"  -> 3
      [] rank = "III" -> 2
      [] rank = "IV"  -> 1
      [] OTHER        -> 0

\* whether the  for entry in league_entries  loop finds a solo-queue entry
HasSoloQueue(entries) ==
    \E k \in DOMAIN entries : entries[k].queue_type = "RANKED_SOLO_5x5"

\* the entry it stops at: the first one of the solo queue
SoloQueue(entries) ==
    entries[CHOOSE k \in DOMAIN entries :
               /\ entries[k].queue_type = "RANKED_SOLO_5x5"
               /\ \A j \in 1..(k - 1) :
                      entries[j].queue_type # "RANKED_SOLO_5x5"]

\* wins / total_games * 100, kept exact as a fraction; 0 without games
WinRate(wins, losses) ==
    IF wins + losses > 0
    THEN [num |-> wins * 100, den |-> wins + losses]
    ELSE [num |-> 0, den |-> 1]

\* (mutant) the test without the lower-casing of the message
IsNotFoundMessageCased(error_msg) ==
    \/ Contains(<<"4","0","4">>, error_msg)
    \/ Contains(<<"n","o","t"," ","f","o","u","n","d">>, error_msg)
    \/ Contains(<<"D","a","t","a"," ","n","o","t"," ","f","o","u","n","d">>,
                error_msg)

\* the  except Exception  branch: classification by the message text
IsNotFoundMessage(error_msg) ==
    \/ Contains(<<"4","0","4">>, error_msg)
    \/ Contains(<<"n","o","t"," ","f","o","u","n","d">>, Lower(error_msg))
    \/ Contains(<<"D","a","t","a"," ","n","o","t"," ","f","o","u","n","d">>,
                error_msg)

\* (mutant) a handler that lets every failure but not-found through
OnExceptionReraise(game_name, tag_line, error_msg) ==
    IF IsNotFoundMessage(error_msg)
    THEN [game_name |-> game_name, tag_line |-> tag_line,
          status |-> "not_found"]
    ELSE [status |-> "raised", error |-> error_msg]

OnException(game_name, tag_line, error_msg) ==
    IF IsNotFoundMessage(error_msg)
    THEN [game_name |-> game_name, tag_line |-> tag_line,
          status |-> "not_found"]
    ELSE [game_name |-> game_name, tag_line |-> tag_line,
          status |-> "error", error |-> error_msg]

\* lol_rank_tracker.get_player_rank against a remote that answers resp:
\* resp.account and resp.league are [ok |-> TRUE, ...] or
\* [ok |-> FALSE, msg |-> str(e)] for a call that raises
get_player_rank(game_name, tag_line, resp) ==
    IF ~resp.account.ok
    THEN OnException(game_name, tag_line, resp.account.msg)
    ELSE IF ~resp.league.ok
    THEN OnException(game_name, tag_line, resp.league.msg)
    ELSE LET solo_queue == SoloQueue(resp.league.entries) IN
         IF HasSoloQueue(resp.league.entries)
         THEN [game_name   |-> game_name,
               tag_line    |-> tag_line,
               tier        |-> solo_queue.tier,
               rank        |-> solo_queue.rank,
               lp          |-> solo_queue.league_points,
               wins        |-> solo_queue.wins,
               losses      |-> solo_queue.losses,
               win_rate    |-> WinRate(solo_queue.wins, solo_queue.losses),
               total_score |-> TIER_WEIGHT(solo_queue.tier) * 1000
                               + RANK_WEIGHT(solo_queue.rank) * 100
                               + solo_queue.league_points,
               status      |-> "success"]
         ELSE [game_name |-> game_name, tag_line |-> tag_line,
               status |-> "unranked"]

(***************************************************************************)
(* The roster store: load_id_list and the process-wide cache               *)
(***************************************************************************)
\* _id_list_mtime = None, and "no time yet" in the bookkeeping below
NoMtime == 0 - 1
NoTime == 0 - 1

\* (mutant) the filter without its test for a comment line
KeepLineWithComments(ln) ==
    /\ Strip(ln) # <<>>
    /\ Contains(<<"#">>, ln)

\* the list comprehension of load_id_list: the lines kept, each trimmed
KeepLine(ln) ==
    /\ Strip(ln) # <<>>
    /\ Contains(<<"#">>, ln)
    /\ ~StartsWith(Strip(ln), <<"#">>)

\* (mutant) the lines kept are stored as read, untrimmed
CleanedUntrimmed(lines) == SelectSeq(lines, KeepLine)

\* lines 49-51: the kept lines, stripped (kept is bound through a singleton
\* set, which has it computed once)
Cleaned(lines) ==
    CHOOSE list \in {[k \in DOMAIN kept |-> Strip(kept[k])] :
                        kept \in {SelectSeq(lines, KeepLine)}} : TRUE

\* one activation of load_id_list: where it is suspended, and its locals
IdleLoad == [pc |-> "idle", mtime |-> NoMtime, lines |-> <<>>]
CallLoad == [pc |-> "stat", mtime |-> NoMtime, lines |-> <<>>]

\* (mutant) a failed stat leaves the cache as it is
StatFailedKeep == [list |-> _id_list, mtime |-> _id_list_mtime]

\* lines 40-43: the except branch of the stat clears the cache
StatFailed == [list |-> <<>>, mtime |-> NoMtime]

\* (mutant) the cached mtime is never taken to be current
IsCurrentNever(mtime) == FALSE

\* (mutant) the cache is tagged with the file's mtime at the time of storing
StoredMtimeAtStore(ld) == file.mtime

\* line 52: the cache is tagged with the mtime the stat of line 39 returned
StoredMtime(ld) == ld.mtime

\* line 45: the cache was read under this mtime
IsCurrent(mtime) == _id_list_mtime = mtime

\* The step of load_id_list that ends the await it is suspended at, up to
\* its next await, its return or the exception it lets through:
\*   stat  - aiofiles.os.stat, the except branch and the mtime comparison
\*   open  - aiofiles.open
\*   read  - f.readlines()
\*   close - leaving the async with, then the filter and the two assignments
\* The result names the activation, the cache after the step and the outcome.
LoadStep(ld) ==
    CASE ld.pc = "stat" ->
           IF ~file.ok
           THEN [ld |-> IdleLoad, list |-> StatFailed.list,
                 mtime |-> StatFailed.mtime, out |-> "returned"]
           ELSE IF IsCurrent(file.mtime)
           THEN [ld |-> IdleLoad, list |-> _id_list,
                 mtime |-> _id_list_mtime, out |-> "returned"]
           ELSE [ld |-> [ld EXCEPT !.pc = "open", !.mtime = file.mtime],
                 list |-> _id_list, mtime |-> _id_list_mtime,
                 out |-> "pending"]
      [] ld.pc = "open" ->
           IF file.ok /\ file.readable
           THEN [ld |-> [ld EXCEPT !.pc = "read"],
                 list |-> _id_list, mtime |-> _id_list_mtime,
                 out |-> "pending"]
           ELSE [ld |-> IdleLoad, list |-> _id_list,
                 mtime |-> _id_list_mtime, out |-> "raised"]
      [] ld.pc = "read" ->
           IF file.ok /\ file.readable
           THEN [ld |-> [ld EXCEPT !.pc = "close", !.lines = file.lines],
                 list |-> _id_list, mtime |-> _id_list_mtime,
                 out |-> "pending"]
           ELSE [ld |-> IdleLoad, list |-> _id_list,
                 mtime |-> _id_list_mtime, out |-> "raised"]
      [] ld.pc = "close" ->
           [ld |-> IdleLoad, list |-> Cleaned(ld.lines),
            mtime |-> StoredMtime(ld), out |-> "returned"]

(***************************************************************************)
(* The report renderer (the partition and the order of generate_html)      *)
(***************************************************************************)
\* The order a stable sort, largest key first, puts the first k indices of
\* key in: list.sort(key=..., reverse=True) keeps equal keys in their order,
\* so an index comes after the larger keys and after the equal keys before it.
\* (mutant) a sort that puts a later element ahead of its equals
SortedIndicesTiesReversed(key, k) ==
    CHOOSE order \in
      {[p \in 1..k |-> CHOOSE i \in 1..k : place[i] = p] :
          place \in {[i \in 1..k |-> 1 + Cardinality({j \in 1..k :
                          \/ key[j] > key[i]
                          \/ key[j] = key[i] /\ j > i})]}} : TRUE

SortedIndices(key, k) ==
    CHOOSE order \in
      {[p \in 1..k |-> CHOOSE i \in 1..k : place[i] = p] :
          place \in {[i \in 1..k |-> 1 + Cardinality({j \in 1..k :
                          \/ key[j] > key[i]
                          \/ key[j] = key[i] /\ j < i})]}} : TRUE

\* (mutant) the list is left in the order it came in
SortDescSkipped(s, key) == s

SortDesc(s, key) ==
    CHOOSE sorted \in {[p \in DOMAIN s |-> s[order[p]]] :
                          order \in {SortedIndices(key, Len(s))}} : TRUE

\* x.get("total_score", 0)
ScoreOrZero(p) == IF "total_score" \in DOMAIN p THEN p.total_score ELSE 0

\* (mutant) the scheduler's sort puts a later result ahead of its equals
SortPlayersTiesReversed(players) ==
    LET key == [k \in DOMAIN players |-> ScoreOrZero(players[k])]
        order == SortedIndicesTiesReversed(key, Len(players))
    IN  [p \in DOMAIN players |-> players[order[p]]]

\* players.sort(key=lambda x: x.get("total_score", 0), reverse=True)
SortPlayers(players) ==
    SortDesc(players, [k \in DOMAIN players |-> ScoreOrZero(players[k])])

IsSuccess(p) == p.status = "success"
IsUnranked(p) == p.status = "unranked"
\* (mutant) the error subset without the not-found results
IsErroredOnlyError(p) == p.status = "error"

IsErrored(p) == p.status \in {"not_found", "error"}

\* the Python test  win_rate >= n  on the fraction win_rate
AtLeast(win_rate, n) == win_rate.num >= n * win_rate.den

\* (mutant) the thresholds taken as strict
win_rate_class_strict(win_rate) ==
    IF win_rate.num > 55 * win_rate.den THEN "high"
    ELSE IF win_rate.num > 50 * win_rate.den THEN "medium" ELSE "low"

\* line 267
win_rate_class(win_rate) ==
    IF AtLeast(win_rate, 55) THEN "high"
    ELSE IF AtLeast(win_rate, 50) THEN "medium" ELSE "low"

\* str(n) of a natural number
DigitChars == <<"0", "1", "2", "3", "4", "5", "6", "7", "8", "9">>
RECURSIVE Digits(_)
Digits(n) ==
    IF n < 10 THEN <<DigitChars[n + 1]>>
    ELSE Digits(n \div 10) \o <<DigitChars[(n % 10) + 1]>>

\* the format  {win_rate:.1f}%  of line 285: one decimal, the nearest tenth,
\* a tie going to the even one
FormatOneDecimal(win_rate) ==
    LET scaled == win_rate.num * 10
        floor  == scaled \div win_rate.den
        twice  == 2 * (scaled % win_rate.den)
        tenths == IF twice > win_rate.den
                     \/ (twice = win_rate.den /\ floor % 2 = 1)
                  THEN floor + 1 ELSE floor
    IN  Digits(tenths \div 10) \o <<".", DigitChars[(tenths % 10) + 1], "%">>

\* lines 266-287: one row of the ranked table
TableRow(idx, player) ==
    [idx            |-> idx,
     name           |-> player.game_name \o <<"#">> \o player.tag_line,
     tier           |-> player.tier,
     rank           |-> player.rank,
     lp             |-> player.lp,
     wins           |-> player.wins,
     losses         |-> player.losses,
     total_games    |-> player.wins + player.losses,
     win_rate_class |-> win_rate_class(player.win_rate),
     win_rate       |-> FormatOneDecimal(player.win_rate)]

\* (mutant) the two lists are written only inside the branch of the table
SectionsUnderTable(ranked_players, unranked_players, error_players) ==
    <<"stats">>
    \o (IF ranked_players # <<>>
        THEN <<"table">>
             \o (IF unranked_players # <<>> THEN <<"unranked">> ELSE <<>>)
             \o (IF error_players # <<>> THEN <<"errors">> ELSE <<>>)
        ELSE <<>>)

\* lines 243-318: the sections the document is made of, in their order
Sections(ranked_players, unranked_players, error_players) ==
    <<"stats">>
    \o (IF ranked_players # <<>> THEN <<"table">> ELSE <<>>)
    \o (IF unranked_players # <<>> THEN <<"unranked">> ELSE <<>>)
    \o (IF error_players # <<>> THEN <<"errors">> ELSE <<>>)

\* (mutant) every item of the error list gets the generic label
ErrorItemGeneric(player) ==
    [name      |-> player.game_name \o <<"#">> \o player.tag_line,
     error_msg |-> <<"not_found_label">>]

\* lines 311-316: one item of the error list; player.get('error', label),
\* the label of line 312 standing as one token
ErrorItem(player) ==
    [name      |-> player.game_name \o <<"#">> \o player.tag_line,
     error_msg |-> IF "error" \in DOMAIN player THEN player.error
                   ELSE <<"not_found_label">>]

\* lines 133-138: the three subsets, the ranked one sorted by its score
RankedPlayers(players_data) ==
    CHOOSE sorted \in
      {SortDesc(ranked, [k \in DOMAIN ranked |-> ranked[k].total_score]) :
          ranked \in {SelectSeq(players_data, IsSuccess)}} : TRUE

generate_html(players_data) ==
    CHOOSE html \in
      {[sections |-> Sections(ranked_players, unranked_players,
                              error_players),
        rows     |-> [k \in DOMAIN ranked_players |->
                         TableRow(k, ranked_players[k])],
        stats    |-> <<Len(ranked_players), Len(unranked_players),
                       Len(error_players)>>,
        table    |-> ranked_players,
        unranked |-> unranked_players,
        errors   |-> error_players,
        error_items |-> [k \in DOMAIN error_players |->
                            ErrorItem(error_players[k])]] :
          ranked_players \in {RankedPlayers(players_data)},
          unranked_players \in {SelectSeq(players_data, IsUnranked)},
          error_players \in {SelectSeq(players_data, IsErrored)}} : TRUE

(***************************************************************************)
(* The remote service and the inputs the model draws from                  *)
(***************************************************************************)
Msg404       == <<"4","0","4">>
MsgNotFound  == <<"N","o","t"," ","F","o","u","n","d">>
MsgDataNF    == <<"D","a","t","a"," ","n","o","t"," ","f","o","u","n","d">>
MsgUpperNF   == <<"N","O","T"," ","F","O","U","N","D">>
MsgTimeout   == <<"t","i","m","e","o","u","t">>
MsgRate      == <<"4","2","9"," ","l","i","m","i","t">>
MsgNotFond   == <<"n","o","t"," ","f","o","n","d">>
ErrMsgs == {Msg404, MsgNotFound, MsgDataNF, MsgUpperNF, MsgTimeout, MsgRate,
            MsgNotFond, <<>>}

Solo(tier, rank, lp, wins, losses) ==
    [queue_type |-> "RANKED_SOLO_5x5", tier |-> tier, rank |-> rank,
     league_points |-> lp, wins |-> wins, losses |-> losses]
Flex(tier, rank, lp, wins, losses) ==
    [queue_type |-> "RANKED_FLEX_SR", tier |-> tier, rank |-> rank,
     league_points |-> lp, wins |-> wins, losses |-> losses]

AccountFails(m) == [account |-> [ok |-> FALSE, msg |-> m],
                    league  |-> [ok |-> FALSE, msg |-> m]]
LeagueFails(m)  == [account |-> [ok |-> TRUE],
                    league  |-> [ok |-> FALSE, msg |-> m]]
Standings(entries) == [account |-> [ok |-> TRUE],
                       league  |-> [ok |-> TRUE, entries |-> entries]]

\* the standings the service reports: below MASTER a division and 0..100
\* league points, from MASTER up division I and league points without a cap
LadderTiers == {"IRON", "BRONZE", "SILVER", "GOLD", "PLATINUM", "EMERALD",
                "DIAMOND"}
ApexTiers == {"MASTER", "GRANDMASTER", "CHALLENGER"}
SoloEntries ==
    {Solo(t, r, lp, w[1], w[2]) :
        t \in LadderTiers, r \in {"I", "II", "III", "IV"},
        lp \in {0, 50, 100}, w \in {<<0, 0>>, <<10, 2>>}}
    \cup
    {Solo(t, "I", lp, w[1], w[2]) :
        t \in ApexTiers, lp \in {0, 300, 1500},
        w \in {<<0, 0>>, <<10, 2>>}}
AFlex == Flex("DIAMOND", "I", 99, 5, 5)

\* every answer of the remote service the fetcher is tried on
Responses ==
    {AccountFails(m) : m \in ErrMsgs} \cup {LeagueFails(m) : m \in ErrMsgs}
    \cup {Standings(<<>>), Standings(<<AFlex>>)}
    \cup {Standings(<<s>>) : s \in SoloEntries}
    \cup {Standings(<<AFlex, s>>) : s \in SoloEntries}
    \cup {Standings(<<s, Solo("IRON", "IV", 1, 1, 1)>>) : s \in SoloEntries}

\* one answer per outcome, for the batch runs
RespSuccess  == Standings(<<AFlex, Solo("GOLD", "II", 50, 10, 2)>>)
RespUnranked == Standings(<<AFlex>>)
RespNotFound == AccountFails(MsgDataNF)
RespError    == LeagueFails(MsgTimeout)
RunResponses == {RespSuccess, RespUnranked, RespNotFound, RespError}

\* roster lines
EntryA == <<"A","#","1">>
EntryB == <<"b","#","2">>
LineComment == <<"#"," ","x">>
LineBlank   == <<" ">>
LineSpaced  == <<" ","A","#","1"," ">>
LineNoSeparator == <<"A">>
LineEmptyTag    == <<"A","#"," ","\n">>
LineTwoSeparators == <<"A","#","1","#","2">>
LineIndentedComment == <<" ","#","x","\n">>

Identities == {parse_riot_id(EntryA), parse_riot_id(EntryB)}

(***************************************************************************)
(* The scheduling constants and the bounds of the model                    *)
(***************************************************************************)
chunk_size == 50
ChunkPause == 1
TargetHour == 3
TargetMinute == 0
TzOffsetHours == 9
MaxSuggestions == 25
Day == 24 * 3600

MaxReady == 2      \* how often on_ready fires
MaxRuns == 3       \* scheduled runs one task instance starts
MaxMtime == 2      \* versions of the roster file
MaxExtra == 2      \* roster entries beyond one full chunk
MaxFaults == 2     \* changes of the roster file's accessibility
SlowRun == 3600    \* seconds a slow run takes longer
MaxToken == 4      \* characters of a generated parser input
MaxPlayers == 3    \* results of a rendered result set

ReadyIds == 1..MaxReady
TaskIds == 1..MaxReady

Min(a, b) == IF a =< b THEN a ELSE b
Max(a, b) == IF a >= b THEN a ELSE b

\* (mutant) the target moves to tomorrow only once it is past
_next_run_seconds_past(hour, minute, tz_offset_hours) ==
    LET kst_now == now + tz_offset_hours * 3600
        today   == (kst_now \div Day) * Day + hour * 3600 + minute * 60
        target_today == IF kst_now > today THEN today + Day ELSE today
    IN  target_today - kst_now

\* bot._next_run_seconds, with datetime.utcnow() read from the clock
_next_run_seconds(hour, minute, tz_offset_hours) ==
    LET kst_now == now + tz_offset_hours * 3600
        today   == (kst_now \div Day) * Day + hour * 3600 + minute * 60
        target_today == IF kst_now >= today THEN today + Day ELSE today
    IN  target_today - kst_now

(***************************************************************************)
(* daily_refresh_task: one record per started instance of the loop         *)
(*                                                                         *)
(* pc: none (not started), start (created, body not yet run), wait_first   *)
(* (line 155), load (159), gather (175), chunk_sleep (176), write (182),   *)
(* publish (188-193), sleep24 (199), dead (an exception left the body).    *)
(* collected, chunkOf, roster, changed, started, startAt, startAfter,       *)
(* doneAt, failedAt, maxDur, pub and slowed are bookkeeping the code does  *)
(* not hold.                                                               *)
(***************************************************************************)
NoTask ==
    [pc |-> "none", ld |-> IdleLoad, wakeAt |-> NoTime, n |-> 0, i |-> 0,
     players |-> <<>>, inflight |-> EmptyBag, html |-> <<>>,
     collected |-> <<>>, chunkOf |-> <<>>, roster |-> <<>>,
     changed |-> FALSE, started |-> 0, startAt |-> NoTime,
     startAfter |-> NoTime,
     doneAt |-> NoTime, failedAt |-> NoTime, maxDur |-> 0, pub |-> "none",
     slowed |-> FALSE]

Sleeping(r) == r.pc \in {"wait_first", "chunk_sleep", "sleep24"}
Running(r) == r.pc \in {"load", "gather", "chunk_sleep", "write", "publish"}

\* Loop.is_running() of discord.ext.tasks: a task exists and has not ended
is_running == \E t \in TaskIds : task[t].pc \notin {"none", "dead"}

\* (mutant) the slice without its upper end: the rest of the roster
BatchToEnd(list, i) == SubSeq(list, i + 1, Len(list))

\* _id_list[i:i+chunk_size]
Batch(list, i) == SubSeq(list, i + 1, Min(i + chunk_size, Len(list)))

\* the worker tasks created for a batch, each tagged with its chunk number
Workers(batch, chunk) ==
    LET ws == {[entry |-> batch[k], chunk |-> chunk] : k \in DOMAIN batch}
    IN  [w \in ws |-> Cardinality({k \in DOMAIN batch : batch[k] = w.entry})]

\* lines 173-175: slice the batch, create its tasks, await the gather
Launch(r, list) ==
    [r EXCEPT !.pc = "gather",
              !.inflight = @ (+) Workers(Batch(list, r.i), r.i \div chunk_size),
              !.changed = @ \/ list # r.roster]

\* lines 178-182: sort, render, and await the opening of the report file
Render(r) ==
    CHOOSE r1 \in {[r EXCEPT !.pc = "write", !.players = sorted,
                             !.html = generate_html(sorted)] :
                      sorted \in {SortPlayers(r.players)}} : TRUE

\* lines 160-175 once load_id_list has returned: the for loop is entered
AfterLoad(r, list) ==
    LET r1 == [r EXCEPT !.ld = IdleLoad, !.players = <<>>,
                        !.collected = <<>>, !.chunkOf = <<>>,
                        !.n = Len(list), !.i = 0, !.roster = list]
    IN  IF Len(list) = 0 THEN Render(r1) ELSE Launch(r1, list)

\* (mutant) the sleep is computed again to the next 03:00 at UTC+9
FinishToTarget(r) ==
    [r EXCEPT !.pc = "sleep24",
              !.wakeAt = now + _next_run_seconds(TargetHour, TargetMinute,
                                                 TzOffsetHours),
              !.doneAt = now, !.maxDur = Max(@, now - r.startAt)]

\* lines 198-199: the run is over, sleep 24 hours
Finish(r) ==
    [r EXCEPT !.pc = "sleep24", !.wakeAt = now + 24 * 3600, !.doneAt = now,
              !.maxDur = Max(@, now - r.startAt)]

\* An exception leaves daily_refresh_task: nothing in the body catches it.
\* The tasks.loop decorator then either ends the task or calls the body
\* again from its first line.
LoopFates == {"dead", "start"}
Fail(r, fate) ==
    [r EXCEPT !.pc = fate, !.ld = IdleLoad, !.failedAt = now]

\* (mutant) a run that starts its fetches from the cache as it stands
RunStartSkippingLoad(r) ==
    AfterLoad([r EXCEPT !.started = @ + 1, !.startAt = now,
                        !.failedAt = NoTime, !.slowed = FALSE,
                        !.startAfter = IF r.pc = "sleep24" THEN r.doneAt
                                       ELSE NoTime], _id_list)

\* lines 157-159: the top of  while True
RunStart(r) ==
    [r EXCEPT !.pc = "load", !.ld = CallLoad, !.started = @ + 1,
              !.startAt = now, !.failedAt = NoTime, !.slowed = FALSE,
              !.startAfter = IF r.pc = "sleep24" THEN r.doneAt ELSE NoTime]

\* lines 153-155: the wait to the first 03:00 at UTC+9
LoopBegin(t) ==
    /\ task[t].pc = "start"
    /\ task' = [task EXCEPT ![t] =
           [@ EXCEPT !.pc = "wait_first",
                     !.wakeAt = now + _next_run_seconds(TargetHour,
                                          TargetMinute, TzOffsetHours)]]
    /\ UNCHANGED <<now, file, _id_list, _id_list_mtime, ready, auto, remote,
                   channel, report, call>>

\* (mutant) a sleep that returns at once
ExpiredAtOnce(r) == TRUE

\* asyncio.sleep returns when its delay has passed
Expired(r) == now >= r.wakeAt

\* the runs started so far, by every instance: the model stops at MaxRuns
RECURSIVE RunsOf(_)
RunsOf(ts) ==
    IF ts = {} THEN 0
    ELSE LET t == CHOOSE u \in ts : TRUE
         IN  task[t].started + RunsOf(ts \ {t})
RunsStarted == RunsOf(TaskIds)

FirstWake(t) ==
    /\ task[t].pc = "wait_first"
    /\ Expired(task[t])
    /\ RunsStarted < MaxRuns
    /\ task' = [task EXCEPT ![t] = RunStart(@)]
    /\ UNCHANGED <<now, file, _id_list, _id_list_mtime, ready, auto, remote,
                   channel, report, call>>

DayWake(t) ==
    /\ task[t].pc = "sleep24"
    /\ Expired(task[t])
    /\ RunsStarted < MaxRuns
    /\ task' = [task EXCEPT ![t] = RunStart(@)]
    /\ UNCHANGED <<now, file, _id_list, _id_list_mtime, ready, auto, remote,
                   channel, report, call>>

\* line 159: load_id_list runs to its next await, returns or raises
TaskLoadStep(t) ==
    /\ task[t].pc = "load"
    /\ \E s \in {LoadStep(task[t].ld)} :
       /\ _id_list' = s.list
       /\ _id_list_mtime' = s.mtime
       /\ \E fate \in LoopFates :
            task' = [task EXCEPT ![t] =
               CASE s.out = "pending"  -> [@ EXCEPT !.ld = s.ld]
                 [] s.out = "returned" -> AfterLoad(@, s.list)
                 [] s.out = "raised"   -> Fail(@, fate)]
    /\ UNCHANGED <<now, file, ready, auto, remote, channel, report, call>>

\* (mutant) a worker that keeps the results of successful fetches only
WorkerResultUnlessFailed(entry) ==
    LET id == parse_riot_id(entry)
        data == get_player_rank(id[1], id[2], remote[id])
    IN  IF data.status \in {"not_found", "error"} THEN <<>> ELSE data

\* lines 162-169: one worker's fetch returns and its result is appended
WorkerResult(entry) ==
    CHOOSE data \in {get_player_rank(id[1], id[2], remote[id]) :
                        id \in {parse_riot_id(entry)}} : TRUE

WorkerDone(t, w) ==
    /\ w \in BagToSet(task[t].inflight)
    /\ \E data \in {WorkerResult(w.entry)} :
       task' = [task EXCEPT ![t] =
           [@ EXCEPT !.inflight = @ (-) SetToBag({w}),
                     !.players = IF DOMAIN data # {} THEN Append(@, data)
                                 ELSE @,
                     !.collected = IF DOMAIN data # {} THEN Append(@, data)
                                   ELSE @,
                     !.chunkOf = IF DOMAIN data # {} THEN Append(@, w.chunk)
                                 ELSE @]]
    /\ UNCHANGED <<now, file, _id_list, _id_list_mtime, ready, auto, remote,
                   channel, report, call>>

\* (mutant) the tasks are created but not awaited
GatherReadyAtOnce(r) == TRUE

\* (mutant) a gather that never returns
GatherReadyNever(r) == FALSE

\* line 175-176: the gather returns once every task of the batch has ended
GatherReady(r) == BagCardinality(r.inflight) = 0

GatherDone(t) ==
    /\ task[t].pc = "gather"
    /\ GatherReady(task[t])
    /\ task' = [task EXCEPT ![t] =
           [@ EXCEPT !.pc = "chunk_sleep", !.wakeAt = now + ChunkPause]]
    /\ UNCHANGED <<now, file, _id_list, _id_list_mtime, ready, auto, remote,
                   channel, report, call>>

\* line 172: the next i of range(0, len(_id_list), chunk_size), or the end
ChunkWake(t) ==
    /\ task[t].pc = "chunk_sleep"
    /\ Expired(task[t])
    /\ LET r1 == [task[t] EXCEPT !.i = @ + chunk_size] IN
       task' = [task EXCEPT ![t] =
           IF r1.i < r1.n THEN Launch(r1, _id_list) ELSE Render(r1)]
    /\ UNCHANGED <<now, file, _id_list, _id_list_mtime, ready, auto, remote,
                   channel, report, call>>

\* (mutant) the publish is awaited without the report having been written
WriteReportSkipped(t) ==
    /\ task[t].pc = "write"
    /\ task' = [task EXCEPT ![t] =
           IF channel = "set"
           THEN [@ EXCEPT !.pc = "publish"]
           ELSE Finish([@ EXCEPT !.pub = "unset"])]
    /\ UNCHANGED <<now, file, _id_list, _id_list_mtime, ready, auto, remote,
                   channel, report, call>>

\* lines 182-186: the report is written; then the publish is awaited, or,
\* without a channel, the run ends
WriteReport(t) ==
    /\ task[t].pc = "write"
    /\ \E ok \in BOOLEAN, fate \in LoopFates :
         IF ok
         THEN /\ report' = [html |-> task[t].html, by |-> t,
                            run |-> task[t].started]
              /\ task' = [task EXCEPT ![t] =
                     IF channel = "set"
                     THEN [@ EXCEPT !.pc = "publish"]
                     ELSE Finish([@ EXCEPT !.pub = "unset"])]
         ELSE /\ report' = report
              /\ task' = [task EXCEPT ![t] = Fail(@, fate)]
    /\ UNCHANGED <<now, file, _id_list, _id_list_mtime, ready, auto, remote,
                   channel, call>>

\* lines 187-196: the send succeeds, or its exception is logged
Publish(t) ==
    /\ task[t].pc = "publish"
    /\ \E outcome \in {"sent", "failed"} :
         task' = [task EXCEPT ![t] = Finish([@ EXCEPT !.pub = outcome])]
    /\ UNCHANGED <<now, file, _id_list, _id_list_mtime, ready, auto, remote,
                   channel, report, call>>

(***************************************************************************)
(* The clock                                                               *)
(***************************************************************************)
Deadlines == {task[t].wakeAt : t \in {u \in TaskIds : Sleeping(task[u])}}

\* time passes up to the next deadline of a sleeping task
AdvanceClock ==
    /\ Deadlines # {}
    /\ \A d \in Deadlines : d > now
    /\ now' = CHOOSE d \in Deadlines : \A e \in Deadlines : d =< e
    /\ UNCHANGED <<file, _id_list, _id_list_mtime, task, ready, auto, remote,
                   channel, report, call>>

\* a run is slow: the file, the fetches or the upload take SlowRun seconds
Elapse(t) ==
    /\ task[t].pc \in {"load", "gather", "write", "publish"}
    /\ ~task[t].slowed
    /\ \A d \in Deadlines : now + SlowRun =< d
    /\ now' = now + SlowRun
    /\ task' = [task EXCEPT ![t] = [@ EXCEPT !.slowed = TRUE]]
    /\ UNCHANGED <<file, _id_list, _id_list_mtime, ready, auto, remote,
                   channel, report, call>>

(***************************************************************************)
(* on_ready                                                                *)
(***************************************************************************)
IdleReady == [pc |-> "idle", ld |-> IdleLoad]

\* the gateway reports ready; lines 71-79 await the command sync
ReadyFire(r) ==
    /\ ready[r].pc = "idle"
    /\ \A q \in ReadyIds : q < r => ready[q].pc # "idle"
    /\ ready' = [ready EXCEPT ![r] = [@ EXCEPT !.pc = "sync"]]
    /\ UNCHANGED <<now, file, _id_list, _id_list_mtime, task, auto, remote,
                   channel, report, call>>

\* lines 73-85: the sync ends (an exception of it is logged), load_id_list
\* is called
ReadySync(r) ==
    /\ ready[r].pc = "sync"
    /\ ready' = [ready EXCEPT ![r] = [pc |-> "load", ld |-> CallLoad]]
    /\ UNCHANGED <<now, file, _id_list, _id_list_mtime, task, auto, remote,
                   channel, report, call>>

\* lines 88-89: start the loop unless it is running
StartLoop(tk) ==
    IF ~is_running /\ \E t \in TaskIds : tk[t].pc = "none"
    THEN LET t == CHOOSE u \in TaskIds :
                      tk[u].pc = "none"
                      /\ \A v \in TaskIds : tk[v].pc = "none" => u =< v
         IN  [tk EXCEPT ![t] = [@ EXCEPT !.pc = "start"]]
    ELSE tk

\* lines 85-89: load_id_list runs on; when it returns the loop is started
ReadyLoadStep(r) ==
    /\ ready[r].pc = "load"
    /\ LET s == LoadStep(ready[r].ld) IN
       /\ _id_list' = s.list
       /\ _id_list_mtime' = s.mtime
       /\ ready' = [ready EXCEPT ![r] =
              IF s.out = "pending" THEN [@ EXCEPT !.ld = s.ld]
              ELSE [pc |-> "done", ld |-> IdleLoad]]
       /\ task' = IF s.out = "returned" THEN StartLoop(task) ELSE task
    /\ UNCHANGED <<now, file, auto, remote, channel, report, call>>

(***************************************************************************)
(* autocomplete_ids                                                        *)
(***************************************************************************)
\* Bookkeeping the code does not hold, about the call of load_id_list the
\* handler makes: out (how it ended), failed (the step that failed), reads
\* (the readlines it performed), ver (the file's version when it began),
\* before (the cache when it began), prev (out, reads and ver of the call
\* before it) and lost (the mtime cached when the stat last failed).
Version(f) == <<f.mtime, f.faults>>
NoPrev == [out |-> "none", reads |-> 0, ver |-> <<0, 0>>]
IdleAuto == [pc |-> "idle", ld |-> IdleLoad, current |-> <<>>,
             suggestions |-> <<>>, out |-> "none", failed |-> "none",
             reads |-> 0, ver |-> <<0, 0>>,
             before |-> [list |-> <<>>, mtime |-> NoMtime],
             prev |-> NoPrev, lost |-> NoMtime]

Prefixes == {<<>>, <<"a">>, <<"B">>}

\* (mutant) every match is returned, however many
SuggestUncapped(current, list) ==
    LET Matches(s) == StartsWith(Lower(s), Lower(current))
    IN  IF current = <<>> THEN list ELSE SelectSeq(list, Matches)

\* lines 59-64
Suggest(current, list) ==
    LET Matches(s) == StartsWith(Lower(s), Lower(current))
        filtered == IF current = <<>> THEN list ELSE SelectSeq(list, Matches)
    IN  SubSeq(filtered, 1, Min(MaxSuggestions, Len(filtered)))

\* line 57-58: a query arrives and calls load_id_list
AutoCall(current) ==
    /\ auto.pc = "idle"
    /\ auto' = [auto EXCEPT
                   !.pc = "load", !.ld = CallLoad, !.current = current,
                   !.suggestions = <<>>, !.out = "pending",
                   !.failed = "none", !.reads = 0, !.ver = Version(file),
                   !.before = [list |-> _id_list, mtime |-> _id_list_mtime],
                   !.prev = [out |-> auto.out, reads |-> auto.reads,
                             ver |-> auto.ver]]
    /\ UNCHANGED <<now, file, _id_list, _id_list_mtime, task, ready, remote,
                   channel, report, call>>

\* lines 58-66: load_id_list runs on; when it returns the answer is built
AutoLoadStep ==
    /\ auto.pc = "load"
    /\ LET s == LoadStep(auto.ld) IN
       /\ _id_list' = s.list
       /\ _id_list_mtime' = s.mtime
       /\ auto' = CASE s.out = "pending"  ->
                         [auto EXCEPT !.ld = s.ld,
                              !.reads = IF s.ld.pc = "close" THEN @ + 1
                                        ELSE @]
                    [] s.out = "returned" ->
                         [auto EXCEPT !.pc = "idle", !.ld = IdleLoad,
                              !.suggestions = Suggest(auto.current, s.list),
                              !.out = "returned",
                              !.failed = IF auto.ld.pc = "stat" /\ ~file.ok
                                         THEN "stat" ELSE "none",
                              !.lost = IF auto.ld.pc = "stat" /\ ~file.ok
                                          /\ _id_list_mtime # NoMtime
                                       THEN _id_list_mtime ELSE @]
                    [] s.out = "raised"   ->
                         [auto EXCEPT !.pc = "idle", !.ld = IdleLoad,
                              !.out = "raised", !.failed = auto.ld.pc]
    /\ UNCHANGED <<now, file, task, ready, remote, channel, report, call>>

(***************************************************************************)
(* The roster file, as its owner edits it                                  *)
(***************************************************************************)
SmallFiles ==
    {<<>>, <<EntryA>>, <<EntryA, LineComment, EntryB>>,
     <<LineBlank, LineSpaced>>,
     <<LineNoSeparator, LineEmptyTag, LineIndentedComment, EntryB,
       LineTwoSeparators>>}

\* the file is rewritten: new lines, a new mtime
FileChangeTo(lines) ==
    /\ file.mtime < MaxMtime
    /\ lines # file.lines
    /\ file' = [file EXCEPT !.mtime = @ + 1, !.lines = lines]
    /\ UNCHANGED <<now, _id_list, _id_list_mtime, task, ready, auto, remote,
                   channel, report, call>>

FileChange == \E lines \in SmallFiles : FileChangeTo(lines)

\* the file is removed, made unreadable, or restored
FileAccess ==
    /\ file.faults < MaxFaults
    /\ \E s \in {<<TRUE, TRUE>>, <<TRUE, FALSE>>, <<FALSE, FALSE>>} :
         /\ s # <<file.ok, file.readable>>
         /\ file' = [file EXCEPT !.ok = s[1], !.readable = s[2],
                                 !.faults = @ + 1]
    /\ UNCHANGED <<now, _id_list, _id_list_mtime, task, ready, auto, remote,
                   channel, report, call>>

(***************************************************************************)
(* A direct call of get_player_rank                                        *)
(***************************************************************************)
NoCall == [pc |-> "idle"]

Fetch ==
    /\ call.pc = "called"
    /\ call' = [call EXCEPT !.pc = "returned",
                    !.result = get_player_rank(call.game_name, call.tag_line,
                                               call.resp)]
    /\ UNCHANGED <<now, file, _id_list, _id_list_mtime, task, ready, auto,
                   remote, channel, report>>

\* a direct call of _next_run_seconds(hour, minute, tz_offset_hours)
NextRunCall(hour, minute, tz_offset_hours) ==
    /\ call.pc = "idle"
    /\ call' = [pc |-> "waited", hour |-> hour, minute |-> minute,
                tz_offset_hours |-> tz_offset_hours,
                result |-> _next_run_seconds(hour, minute, tz_offset_hours)]
    /\ UNCHANGED <<now, file, _id_list, _id_list_mtime, task, ready, auto,
                   remote, channel, report>>

\* a direct call of parse_riot_id(line)
ParseCall(line) ==
    /\ call.pc = "idle"
    /\ call' = [pc |-> "parsed", line |-> line,
                result |-> parse_riot_id(line)]
    /\ UNCHANGED <<now, file, _id_list, _id_list_mtime, task, ready, auto,
                   remote, channel, report>>

\* bot.py lines 178-180 on a collected result set: the sort, then the render
RenderCall ==
    /\ call.pc = "collected"
    /\ call' = [call EXCEPT
                   !.pc = "rendered",
                   !.sorted = SortPlayers(call.players),
                   !.html = generate_html(SortPlayers(call.players))]
    /\ UNCHANGED <<now, file, _id_list, _id_list_mtime, task, ready, auto,
                   remote, channel, report>>

(***************************************************************************)
(* rank_command: the lookup of one identity                                *)
(*                                                                         *)
(* pc: defer (line 97), fetch (105), replied (a followup.send was issued). *)
(***************************************************************************)
NotAvailable == <<"N", "/", "A">>

\* (mutant) an error result is answered like a result that was not found
RankReplyErrorAsNotFound(game_id, data) ==
    IF data.status \in {"not_found", "error"}
    THEN [kind |-> "not_found", game_id |-> game_id]
    ELSE [kind    |-> "embed",
          title   |-> data.game_name \o <<"#">> \o data.tag_line]

\* lines 111-138: the message or the embed sent for the data fetched
RankReply(game_id, data) ==
    IF data.status = "not_found"
    THEN [kind |-> "not_found", game_id |-> game_id]
    ELSE IF data.status = "error"
    THEN [kind |-> "error", error |-> data.error]
    ELSE LET wins   == IF "wins" \in DOMAIN data THEN data.wins ELSE 0
             losses == IF "losses" \in DOMAIN data THEN data.losses ELSE 0
             total  == wins + losses
         IN  [kind    |-> "embed",
              title   |-> data.game_name \o <<"#">> \o data.tag_line,
              tier    |-> IF data.status = "unranked" THEN <<"unrated">>
                          ELSE <<data.tier, data.rank>>,
              lp      |-> IF "lp" \in DOMAIN data THEN data.lp ELSE 0,
              wins    |-> wins,
              losses  |-> losses,
              winrate |-> IF total > 0
                          THEN FormatOneDecimal(WinRate(wins, losses))
                          ELSE NotAvailable]

\* line 96: the command arrives with its game_id
RankCall(game_id) ==
    /\ call.pc \in {"idle", "replied"}
    /\ call' = [pc |-> "defer", game_id |-> game_id, id |-> <<None, None>>,
                reply |-> [kind |-> "none"]]
    /\ UNCHANGED <<now, file, _id_list, _id_list_mtime, task, ready, auto,
                   remote, channel, report>>

\* lines 97-105: the defer ends; the format test, the parse, and the fetch
\* is handed to a thread
RankDefer ==
    /\ call.pc = "defer"
    /\ call' = IF ~Contains(<<"#">>, call.game_id)
               THEN [call EXCEPT !.pc = "replied",
                                 !.reply = [kind |-> "format"]]
               ELSE [call EXCEPT !.pc = "fetch",
                                 !.id = parse_riot_id(call.game_id)]
    /\ UNCHANGED <<now, file, _id_list, _id_list_mtime, task, ready, auto,
                   remote, channel, report>>

\* lines 105-138: the fetch returns and the answer is sent
RankFetch ==
    /\ call.pc = "fetch"
    /\ call' = [call EXCEPT
                   !.pc = "replied",
                   !.reply = RankReply(call.game_id,
                                 get_player_rank(call.id[1], call.id[2],
                                                 remote[call.id]))]
    /\ UNCHANGED <<now, file, _id_list, _id_list_mtime, task, ready, auto,
                   remote, channel, report>>

(***************************************************************************)
(* fetch_all_data: the batch of the command-line tool                      *)
(*                                                                         *)
(* pc: cli (inside the for loop of line 339), cli_done (returned).         *)
(* fetched, the identities get_player_rank was called with, is bookkeeping *)
(* the code does not hold.                                                 *)
(***************************************************************************)
\* (mutant) the test of line 342 lets every line through
TruthyAlways(x) == TRUE

\* line 342: a name or tag that is neither None nor empty
Truthy(x) == x # None /\ x # <<>>

\* lines 333-337: the roster file is opened and its lines are read
CliStart ==
    /\ call.pc = "idle"
    /\ call' = IF file.ok /\ file.readable
               THEN [pc |-> "cli", lines |-> file.lines, idx |-> 0,
                     players_data |-> <<>>, fetched |-> <<>>,
                     result |-> "none"]
               ELSE [pc |-> "cli_done", lines |-> <<>>, idx |-> 0,
                     players_data |-> <<>>, fetched |-> <<>>,
                     result |-> "None"]
    /\ UNCHANGED <<now, file, _id_list, _id_list_mtime, task, ready, auto,
                   remote, channel, report>>

\* lines 339-354: one line of the file is parsed, and fetched or skipped
CliLine ==
    /\ call.pc = "cli"
    /\ call.idx < Len(call.lines)
    /\ LET id == parse_riot_id(call.lines[call.idx + 1]) IN
       call' = IF Truthy(id[1]) /\ Truthy(id[2])
               THEN [call EXCEPT
                       !.idx = @ + 1,
                       !.players_data =
                           Append(@, get_player_rank(id[1], id[2],
                                                     remote[id])),
                       !.fetched = Append(@, id)]
               ELSE [call EXCEPT !.idx = @ + 1]
    /\ UNCHANGED <<now, file, _id_list, _id_list_mtime, task, ready, auto,
                   remote, channel, report>>

\* lines 356-367: the data is saved and returned, or the save fails and
\* None is returned
CliSave ==
    /\ call.pc = "cli"
    /\ call.idx = Len(call.lines)
    /\ \E saved \in BOOLEAN :
         call' = [call EXCEPT !.pc = "cli_done",
                       !.result = IF saved THEN "players_data" ELSE "None"]
    /\ UNCHANGED <<now, file, _id_list, _id_list_mtime, task, ready, auto,
                   remote, channel, report>>

(***************************************************************************)
(* The specifications                                                      *)
(***************************************************************************)
\* the process right after its modules are loaded
Constructed ==
    /\ _id_list = <<>>
    /\ _id_list_mtime = NoMtime
    /\ ready = [r \in ReadyIds |-> IdleReady]
    /\ auto = IdleAuto
    /\ report = [html |-> <<>>, by |-> 0, run |-> 0]

\* 02:00, 03:00 and 04:00 at UTC+9, as seconds of UTC
StartTimes == {17 * 3600, 18 * 3600, 19 * 3600}

\* The bot: on_ready, the daily loop, suggestion queries and the roster
\* file's owner, over small rosters.
Init ==
    /\ Constructed
    /\ now \in StartTimes
    /\ file \in [ok : {TRUE}, readable : {TRUE}, mtime : {1},
                 lines : {<<>>, <<EntryA, LineComment, EntryB>>},
                 faults : {0}]
    /\ task = [t \in TaskIds |-> NoTask]
    /\ remote = [id \in Identities |->
                    IF id = parse_riot_id(EntryA) THEN RespSuccess
                    ELSE RespNotFound]
    /\ channel \in {"unset", "set"}
    /\ call = NoCall

Next ==
    \/ \E r \in ReadyIds : ReadyFire(r) \/ ReadySync(r) \/ ReadyLoadStep(r)
    \/ \E t \in TaskIds :
          \/ LoopBegin(t) \/ FirstWake(t) \/ DayWake(t) \/ TaskLoadStep(t)
          \/ \E w \in BagToSet(task[t].inflight) : WorkerDone(t, w)
          \/ GatherDone(t) \/ ChunkWake(t) \/ WriteReport(t) \/ Publish(t)
          \/ Elapse(t)
    \/ AdvanceClock

Spec == Init /\ [][Next]_vars

\* One batch run over rosters longer than a chunk: the loop sleeps to its
\* first run, nothing else touches the roster.
Roster(n, p) == [k \in 1..n |-> IF k = p THEN EntryB ELSE EntryA]
RosterSizes == {0, 1, chunk_size, chunk_size + MaxExtra}
BigFiles == {Roster(n, p) : n \in RosterSizes, p \in {0, 1, chunk_size + 1}}

InitBatch ==
    /\ Constructed
    /\ now = 18 * 3600
    /\ file \in [ok : {TRUE}, readable : {TRUE}, mtime : {1},
                 lines : BigFiles, faults : {0}]
    /\ task = [t \in TaskIds |->
                  IF t = 1
                  THEN [NoTask EXCEPT !.pc = "wait_first", !.wakeAt = now]
                  ELSE NoTask]
    /\ remote \in {f \in [Identities -> RunResponses] :
                      f[parse_riot_id(EntryA)] # f[parse_riot_id(EntryB)]}
    /\ channel = "set"
    /\ call = NoCall

NextBatch ==
    \/ \E t \in TaskIds :
          \/ FirstWake(t) \/ TaskLoadStep(t)
          \/ \E w \in BagToSet(task[t].inflight) : WorkerDone(t, w)
          \/ GatherDone(t) \/ ChunkWake(t) \/ WriteReport(t) \/ Publish(t)
    \/ AdvanceClock

SpecBatch == InitBatch /\ [][NextBatch]_vars

\* get_player_rank alone, on every answer of the remote service
InitFetch ==
    /\ Constructed
    /\ now = 0
    /\ file = [ok |-> TRUE, readable |-> TRUE, mtime |-> 1, lines |-> <<>>,
               faults |-> 0]
    /\ task = [t \in TaskIds |-> NoTask]
    /\ remote = [id \in Identities |-> RespUnranked]
    /\ channel = "unset"
    /\ call \in [pc : {"called"}, game_name : {<<"A">>, <<>>},
                 tag_line : {<<"1">>}, resp : Responses, result : {<<>>}]

NextFetch == Fetch

SpecFetch == InitFetch /\ [][NextFetch]_vars

\* a roster with more entries, and more entries of one prefix, than a
\* query returns
LongFile == Roster(MaxSuggestions + 2, 2)

\* Suggestion queries against a roster file that changes and comes and
\* goes: the roster store alone, no scheduled run.
InitRoster ==
    /\ Constructed
    /\ now = 0
    /\ file \in [ok : {TRUE}, readable : {TRUE}, mtime : {1},
                 lines : SmallFiles \cup {LongFile}, faults : {0}]
    /\ task = [t \in TaskIds |-> NoTask]
    /\ remote = [id \in Identities |-> RespUnranked]
    /\ channel = "unset"
    /\ call = NoCall

NextRoster ==
    \/ \E current \in Prefixes : AutoCall(current)
    \/ AutoLoadStep
    \/ FileChange
    \/ FileAccess

SpecRoster == InitRoster /\ [][NextRoster]_vars

\* The roster store under its users at once: a scheduled run up to the start
\* of its fetches, an on_ready, suggestion queries and lookups, while the
\* roster file is rewritten.
SharedFiles == {<<EntryA>>, <<EntryB, LineComment, EntryA>>}

InitShared ==
    /\ Constructed
    /\ now = 18 * 3600
    /\ file = [ok |-> TRUE, readable |-> TRUE, mtime |-> 1,
               lines |-> <<EntryA>>, faults |-> 0]
    /\ task = [t \in TaskIds |->
                  IF t = 1
                  THEN [NoTask EXCEPT !.pc = "wait_first", !.wakeAt = now]
                  ELSE NoTask]
    /\ remote = [id \in Identities |->
                    IF id = parse_riot_id(EntryA) THEN RespSuccess
                    ELSE RespNotFound]
    /\ channel = "unset"
    /\ call = NoCall

NextShared ==
    \/ AutoCall(<<"B">>)
    \/ AutoLoadStep
    \/ ReadyFire(1) \/ ReadySync(1) \/ ReadyLoadStep(1)
    \/ FirstWake(1) \/ TaskLoadStep(1)
    \/ \E game_id \in {EntryA, LineNoSeparator} : RankCall(game_id)
    \/ RankDefer
    \/ RankFetch
    \/ \E lines \in SharedFiles : FileChangeTo(lines)

SpecShared == InitShared /\ [][NextShared]_vars

\* The scheduled runs of one loop, day after day, over rosters of one and
\* of two chunks; every fetch returns, the event loop resumes whatever is
\* ready, and time passes.
InitLive ==
    /\ InitBatch
    /\ file.lines \in {Roster(1, 1), Roster(chunk_size + MaxExtra, 1)}
    /\ remote[parse_riot_id(EntryA)] = RespSuccess
    /\ remote[parse_riot_id(EntryB)] = RespUnranked

NextLive ==
    \/ \E t \in TaskIds :
          \/ FirstWake(t) \/ DayWake(t) \/ TaskLoadStep(t)
          \/ \E w \in BagToSet(task[t].inflight) : WorkerDone(t, w)
          \/ GatherDone(t) \/ ChunkWake(t) \/ WriteReport(t) \/ Publish(t)
    \/ AdvanceClock

SpecLive ==
    /\ InitLive /\ [][NextLive]_vars
    /\ WF_vars(\E t \in TaskIds :
                  \E w \in BagToSet(task[t].inflight) : WorkerDone(t, w))
    /\ WF_vars(\E t \in TaskIds :
                  \/ FirstWake(t) \/ DayWake(t) \/ TaskLoadStep(t)
                  \/ GatherDone(t) \/ ChunkWake(t) \/ WriteReport(t)
                  \/ Publish(t))
    /\ WF_vars(AdvanceClock)

\* The two batches over roster files with lines of every kind: the
\* command-line tool's fetch_all_data and one scheduled run of the bot up
\* to its render.
ParsedLines ==
    UNION {{parse_riot_id(f[k]) : k \in DOMAIN f} : f \in SmallFiles}

InitSkip ==
    /\ Constructed
    /\ now = 18 * 3600
    /\ file \in [ok : {TRUE}, readable : BOOLEAN, mtime : {1},
                 lines : SmallFiles, faults : {0}]
    /\ task = [t \in TaskIds |->
                  IF t = 1
                  THEN [NoTask EXCEPT !.pc = "wait_first", !.wakeAt = now]
                  ELSE NoTask]
    /\ \E r1 \in RunResponses, r2 \in {RespUnranked, RespError} :
          remote = [id \in ParsedLines |->
                       IF id = parse_riot_id(EntryA) THEN r1 ELSE r2]
    /\ channel = "unset"
    /\ call = NoCall

NextSkip ==
    \/ CliStart \/ CliLine \/ CliSave
    \/ FirstWake(1) \/ TaskLoadStep(1)
    \/ \E w \in BagToSet(task[1].inflight) : WorkerDone(1, w)
    \/ GatherDone(1) \/ ChunkWake(1)
    \/ AdvanceClock

SpecSkip == InitSkip /\ [][NextSkip]_vars

\* One batch run over a roster of two chunks while a suggestion query calls
\* load_id_list and the roster file is rewritten, to as many entries in
\* another order or to a single entry.
ReloadFiles ==
    {Roster(chunk_size + MaxExtra, chunk_size + 1), <<EntryB>>}

InitReload ==
    /\ InitBatch
    /\ file.lines = Roster(chunk_size + MaxExtra, 1)
    /\ remote[parse_riot_id(EntryA)] = RespSuccess
    /\ remote[parse_riot_id(EntryB)] = RespUnranked

NextReload ==
    \/ FirstWake(1) \/ TaskLoadStep(1)
    \/ \E w \in BagToSet(task[1].inflight) : WorkerDone(1, w)
    \/ GatherDone(1) \/ ChunkWake(1)
    \/ AdvanceClock
    \/ (auto.out = "none" /\ AutoCall(<<>>))
    \/ AutoLoadStep
    \/ \E lines \in ReloadFiles : FileChangeTo(lines)

SpecReload == InitReload /\ [][NextReload]_vars

\* The /rank command, one invocation after another, with inputs of every
\* kind and every outcome of the fetch.
LookupInputs ==
    {EntryA, EntryB, LineSpaced, LineTwoSeparators, LineEmptyTag,
     LineNoSeparator, <<>>}

InitLookup ==
    /\ Constructed
    /\ now = 18 * 3600
    /\ file = [ok |-> TRUE, readable |-> TRUE, mtime |-> 1,
               lines |-> <<EntryA>>, faults |-> 0]
    /\ task = [t \in TaskIds |-> NoTask]
    /\ \E r1, r2 \in RunResponses
                     \cup {Standings(<<>>),
                           Standings(<<Solo("GOLD", "II", 0, 0, 0)>>)} :
         remote = [id \in {parse_riot_id(g) : g \in LookupInputs} |->
                     IF id = parse_riot_id(EntryA) THEN r1 ELSE r2]
    /\ channel = "unset"
    /\ call = NoCall

NextLookup ==
    \/ \E game_id \in LookupInputs : RankCall(game_id)
    \/ RankDefer
    \/ RankFetch

SpecLookup == InitLookup /\ [][NextLookup]_vars

\* One scheduled run from the roster file to the report: three entries with
\* a comment line and a blank line between them, in either order; the first
\* entry is ranked CHALLENGER I with 50 LP, the second has no solo-queue
\* standing, the third is not found or fails.
EntryB2 == <<"B","#","2">>
EntryC3 == <<"C","#","3">>
EndToEndFiles ==
    {<<EntryA, EntryB2, LineComment, LineBlank, EntryC3>>,
     <<EntryC3, LineBlank, LineComment, EntryB2, EntryA>>}

InitEndToEnd ==
    /\ Constructed
    /\ now = 18 * 3600
    /\ file \in [ok : {TRUE}, readable : {TRUE}, mtime : {1},
                 lines : EndToEndFiles, faults : {0}]
    /\ task = [t \in TaskIds |->
                  IF t = 1
                  THEN [NoTask EXCEPT !.pc = "wait_first", !.wakeAt = now]
                  ELSE NoTask]
    /\ \E w \in {<<10, 2>>, <<0, 0>>},
          u \in {Standings(<<>>), RespUnranked},
          f \in {RespNotFound, RespError} :
         remote = [id \in {parse_riot_id(EntryA), parse_riot_id(EntryB2),
                           parse_riot_id(EntryC3)} |->
                     CASE id = parse_riot_id(EntryA) ->
                            Standings(<<Solo("CHALLENGER", "I", 50,
                                             w[1], w[2])>>)
                       [] id = parse_riot_id(EntryB2) -> u
                       [] OTHER -> f]
    /\ channel = "set"
    /\ call = NoCall

NextEndToEnd ==
    \/ FirstWake(1) \/ TaskLoadStep(1)
    \/ \E w \in BagToSet(task[1].inflight) : WorkerDone(1, w)
    \/ GatherDone(1) \/ ChunkWake(1) \/ WriteReport(1) \/ Publish(1)
    \/ AdvanceClock

SpecEndToEnd == InitEndToEnd /\ [][NextEndToEnd]_vars

\* _next_run_seconds at every half hour of a day and around 03:00 at UTC+9,
\* for several targets and offsets
WaitTimes ==
    {Day + k * 1800 : k \in 0..47}
    \cup {Day + 18 * 3600 - 1, Day + 18 * 3600 + 1}
WaitHours == {0, 3, 23}
WaitMinutes == {0, 30}
WaitOffsets == {0 - 5, 0, 9}

InitWait ==
    /\ Constructed
    /\ now \in WaitTimes
    /\ file = [ok |-> TRUE, readable |-> TRUE, mtime |-> 1, lines |-> <<>>,
               faults |-> 0]
    /\ task = [t \in TaskIds |-> NoTask]
    /\ remote = [id \in Identities |-> RespUnranked]
    /\ channel = "unset"
    /\ call = NoCall

NextWait ==
    \E hour \in WaitHours, minute \in WaitMinutes,
       tz_offset_hours \in WaitOffsets :
          NextRunCall(hour, minute, tz_offset_hours)

SpecWait == InitWait /\ [][NextWait]_vars

\* The sort and the render on every result set of up to MaxPlayers results,
\* each as get_player_rank returns it: equal scores under different names,
\* no games at all, win rates of 83.3, 55, 54, 50 and 49 percent, and the
\* three kinds of result without a score.
ResultPool ==
    {get_player_rank(<<"A">>, <<"1">>,
                     Standings(<<Solo("GOLD", "II", 50, 10, 2)>>)),
     get_player_rank(<<"b">>, <<"2">>,
                     Standings(<<Solo("GOLD", "II", 50, 10, 2)>>)),
     get_player_rank(<<"b">>, <<"2">>,
                     Standings(<<Solo("GOLD", "II", 50, 11, 9)>>)),
     get_player_rank(<<"A">>, <<"1">>,
                     Standings(<<Solo("PLATINUM", "IV", 0, 0, 0)>>)),
     get_player_rank(<<"A">>, <<"1">>,
                     Standings(<<Solo("SILVER", "I", 20, 27, 23)>>)),
     get_player_rank(<<"b">>, <<"2">>,
                     Standings(<<Solo("IRON", "IV", 0, 1, 1)>>)),
     get_player_rank(<<"A">>, <<"1">>,
                     Standings(<<Solo("BRONZE", "III", 99, 49, 51)>>)),
     get_player_rank(<<"A">>, <<"1">>, RespUnranked),
     get_player_rank(<<"b">>, <<"2">>, RespUnranked),
     get_player_rank(<<"A">>, <<"1">>, RespNotFound),
     get_player_rank(<<"b">>, <<"2">>, RespError)}
ResultSets == UNION {[1..n -> ResultPool] : n \in 0..MaxPlayers}

InitRender ==
    /\ Constructed
    /\ now = 0
    /\ file = [ok |-> TRUE, readable |-> TRUE, mtime |-> 1, lines |-> <<>>,
               faults |-> 0]
    /\ task = [t \in TaskIds |-> NoTask]
    /\ remote = [id \in Identities |-> RespUnranked]
    /\ channel = "unset"
    /\ \E players \in ResultSets :
          call = [pc |-> "collected", players |-> players, sorted |-> <<>>,
                  html |-> <<>>]

NextRender == RenderCall

SpecRender == InitRender /\ [][NextRender]_vars

\* parse_riot_id on every text of up to MaxToken characters over a letter,
\* the separator and a space, and on the texts the documentation names
TokenChars == {"a", "#", " "}
TokenFaker == <<"F","a","k","e","r","#","K","R","1">>
TokenOnlyTag == <<"#","o","n","l","y","t","a","g">>
TokenNoSeparator == <<"n","o","s","e","p","a","r","a","t","o","r">>
TokenTwoSeparators == <<"a","#","b","#","c">>
Tokens ==
    UNION {[1..n -> TokenChars] : n \in 0..MaxToken}
    \cup {TokenFaker, TokenOnlyTag, TokenNoSeparator, TokenTwoSeparators}

InitParse ==
    /\ Constructed
    /\ now = 0
    /\ file = [ok |-> TRUE, readable |-> TRUE, mtime |-> 1, lines |-> <<>>,
               faults |-> 0]
    /\ task = [t \in TaskIds |-> NoTask]
    /\ remote = [id \in Identities |-> RespUnranked]
    /\ channel = "unset"
    /\ call = NoCall

NextParse == \E line \in Tokens : ParseCall(line)

SpecParse == InitParse /\ [][NextParse]_vars

(***************************************************************************)
(* Properties of the rank fetcher (SpecFetch)                              *)
(***************************************************************************)
\* what the call under test was answered: whether a remote call failed, and
\* the message of the one that did
CallFailed == ~call.resp.account.ok \/ ~call.resp.league.ok
FailureMsg == IF ~call.resp.account.ok THEN call.resp.account.msg
              ELSE call.resp.league.msg

\* C4: get_player_rank never raises to its caller: whichever of the two
\* remote calls fails, with whatever message, the call returns a result
\* whose status is not_found or error and which carries the queried name
\* and tag.
C4_FailureBecomesResult ==
    /\ call.pc \in {"called", "returned"}
    /\ (call.pc = "returned" /\ CallFailed) =>
          /\ call.result.status \in {"not_found", "error"}
          /\ call.result.game_name = call.game_name
          /\ call.result.tag_line = call.tag_line

\* the second remote call failed, and the call returned an error result
C4_Witness ==
    /\ call.pc = "returned"
    /\ call.resp.account.ok
    /\ ~call.resp.league.ok
    /\ call.result.status = "error"
    /\ call.result.game_name = <<"A">>

\* the failure messages of ErrMsgs that say the entity does not exist
NotFoundSignals == {Msg404, MsgNotFound, MsgDataNF, MsgUpperNF}

\* C5: every call returns exactly one of four statuses: success exactly
\* when both remote calls succeed and the standings hold a RANKED_SOLO_5x5
\* entry, unranked exactly when both succeed and they hold none, not_found
\* exactly when a call fails with a signal that the entity does not exist,
\* and error, carrying the failure message, for every other failure.
C5_StatusClassifies ==
    call.pc = "returned" =>
       LET st == call.result.status
           solo == /\ ~CallFailed
                   /\ \E k \in DOMAIN call.resp.league.entries :
                         call.resp.league.entries[k].queue_type
                            = "RANKED_SOLO_5x5"
       IN  /\ st \in {"success", "unranked", "not_found", "error"}
           /\ st = "success" <=> solo
           /\ st = "unranked" <=> (~CallFailed /\ ~solo)
           /\ st = "not_found" <=> (CallFailed /\ FailureMsg \in NotFoundSignals)
           /\ st = "error" <=> (CallFailed /\ FailureMsg \notin NotFoundSignals)
           /\ st = "error" => call.result.error = FailureMsg

\* a standings call that fails with "Not Found" has returned not_found
C5_Witness ==
    /\ call.pc = "returned"
    /\ call.resp.account.ok
    /\ ~call.resp.league.ok
    /\ call.resp.league.msg = MsgNotFound
    /\ call.result.status = "not_found"

(***************************************************************************)
(* Properties of one batch run (SpecBatch)                                 *)
(***************************************************************************)
InFlight(t) == BagCardinality(task[t].inflight)

\* C1: during a batch run over a roster of N entries the number of
\* in-flight fetches (worker tasks created that have not yet produced a
\* result) is at most 50 at every moment, for every N and every order in
\* which the fetches complete.
C1_AtMostFiftyInFlight == \A t \in TaskIds : InFlight(t) =< 50

\* a roster longer than one chunk, with a full chunk of 50 in flight
C1_Witness ==
    \E t \in TaskIds :
        /\ Len(task[t].roster) > 50
        /\ task[t].pc = "gather"
        /\ InFlight(t) = 50

\* the number of results collected so far for chunk c
ResultsOfChunk(t, c) ==
    Cardinality({k \in DOMAIN task[t].chunkOf : task[t].chunkOf[k] = c})

\* C2: no fetch of chunk k+1 starts before every fetch of chunk k has
\* finished, so that in the result set as collected (before the sort) every
\* result of chunk k precedes every result of chunk k+1; the order inside a
\* chunk is whatever order the fetches complete in.
C2_ChunksInSequence ==
    \A t \in TaskIds :
       LET r == task[t] IN
       /\ \A v, w \in BagToSet(r.inflight) : v.chunk = w.chunk
       /\ \A w \in BagToSet(r.inflight) :
             /\ \A k \in DOMAIN r.chunkOf : r.chunkOf[k] =< w.chunk
             /\ \A c \in 0..(w.chunk - 1) :
                   ResultsOfChunk(t, c) = Len(Batch(r.roster, c * chunk_size))
       /\ \A j, k \in DOMAIN r.chunkOf : j < k => r.chunkOf[j] =< r.chunkOf[k]

\* two chunks have run, and inside the first the result of the roster's
\* first entry was not the first to arrive
C2_Witness ==
    \E t \in TaskIds :
        /\ task[t].pc = "write"
        /\ Len(task[t].roster) > chunk_size
        /\ task[t].roster[1] = EntryB
        /\ task[t].collected[1].game_name = <<"A">>
        /\ \E k \in DOMAIN task[t].chunkOf : task[t].chunkOf[k] = 1
        /\ task[t].chunkOf[1] = 0

\* the batch of the run of task t is over
BatchOver(t) ==
    /\ task[t].started >= 1
    /\ task[t].pc \notin {"wait_first", "load", "gather", "chunk_sleep"}

\* the status the outcome assigned to an entry stands for
StatusOf(resp) ==
    CASE resp = RespSuccess  -> "success"
      [] resp = RespUnranked -> "unranked"
      [] resp = RespNotFound -> "not_found"
      [] resp = RespError    -> "error"

IdentityOf(p) == <<p.game_name, p.tag_line>>

\* C3: for any roster and any assignment of fetch outcomes to its entries,
\* a batch run over an unchanged roster leaves the batch only with all
\* chunks done, and its result set then holds exactly one result per roster
\* entry, each with the status of its own outcome: a not-found or error
\* outcome of one entry neither aborts the run nor removes or alters the
\* result of another.
C3_OneResultPerEntry ==
    \A t \in TaskIds :
       LET r == task[t] IN
       (BatchOver(t) /\ ~r.changed) =>
          /\ InFlight(t) = 0
          /\ Len(r.collected) = Len(r.roster)
          /\ \A id \in Identities :
                Cardinality({k \in DOMAIN r.collected :
                                IdentityOf(r.collected[k]) = id})
                = Cardinality({k \in DOMAIN r.roster :
                                  parse_riot_id(r.roster[k]) = id})
          /\ \A k \in DOMAIN r.collected :
                r.collected[k].status
                   = StatusOf(remote[IdentityOf(r.collected[k])])

\* a run over more than one chunk has ended with a failed entry among
\* successful ones
C3_Witness ==
    \E t \in TaskIds :
        /\ task[t].pc = "sleep24"
        /\ Len(task[t].roster) > chunk_size
        /\ \E k \in DOMAIN task[t].collected :
              task[t].collected[k].status \in {"not_found", "error"}
        /\ \E k \in DOMAIN task[t].collected :
              task[t].collected[k].status = "success"

(***************************************************************************)
(* Properties of the scheduler (Spec)                                      *)
(***************************************************************************)
Waiting(r) == r.pc = "sleep24" /\ now < r.wakeAt

\* C6: if any step of a scheduled run fails, the failure is caught at the
\* boundary of the run and the loop stays alive: after every failed run the
\* scheduler still waits 24 hours and then starts another run.  (Stated on
\* the task whose latest run has failed: it sleeps to 24 hours after the
\* failure.)
C6_FailedRunStillSleepsADay ==
    \A t \in TaskIds :
        task[t].failedAt # NoTime =>
            /\ task[t].pc = "sleep24"
            /\ task[t].wakeAt = task[t].failedAt + Day

\* C7: after a scheduled run completes, the scheduler starts no run during
\* the following 24 hours and starts the next run exactly 24 hours after
\* that completion, whether the publish succeeded, failed or was not
\* configured.
C7_NextRunADayAfterCompletion ==
    \A t \in TaskIds :
       LET r == task[t] IN
       /\ r.pc = "sleep24" =>
             /\ r.pub \in {"sent", "failed", "unset"}
             /\ r.wakeAt = r.doneAt + Day
             /\ now =< r.doneAt + Day
             /\ \A u \in TaskIds : task[u].startAt =< r.doneAt
       /\ r.startAfter # NoTime => r.startAt = r.startAfter + Day

\* a run has started after a run whose publish failed
C7_Witness ==
    \E t \in TaskIds :
        /\ task[t].pc = "load"
        /\ task[t].startAfter # NoTime
        /\ task[t].pub = "failed"

\* how long after 03:00 at UTC+9 the instant s (seconds of UTC) lies
Lateness(s) ==
    (s + TzOffsetHours * 3600 - (TargetHour * 3600 + TargetMinute * 60)) % Day

\* C8: for every sequence of scheduled runs with arbitrary durations, each
\* run starts later than 03:00 at UTC+9 by no more than the duration of one
\* run (here: of the longest run so far); the delays of earlier slow runs do
\* not accumulate.
C8_LatenessWithinOneRun ==
    \A t \in TaskIds :
        task[t].started >= 1 => Lateness(task[t].startAt) =< task[t].maxDur

\* a run starts in this step
RunStarts == \E u \in TaskIds : ~Running(task[u]) /\ Running(task[u])'

C10_OneLoopOneRun ==
    /\ Cardinality({t \in TaskIds : task[t].pc # "none"}) =< 1
    /\ Cardinality({t \in TaskIds : Running(task[t])}) =< 1

(***************************************************************************)
(* Properties of the wait computation (SpecWait)                           *)
(***************************************************************************)
\* the time of day, in the offset timezone, of the call under test, and the
\* target's time of day
CallTimeOfDay == (now + call.tz_offset_hours * 3600) % Day
CallTarget == call.hour * 3600 + call.minute * 60

\* C11: _next_run_seconds returns the seconds from the current time in the
\* offset timezone to the target of today when the current time is before
\* it, and to the target of tomorrow when it is at or past it; the result is
\* greater than 0 and at most 86400, one hour before the target it is 3600
\* and one hour after it is 82800.
C11_WaitToNextTarget ==
    call.pc = "waited" =>
        /\ CallTimeOfDay < CallTarget =>
              call.result = CallTarget - CallTimeOfDay
        /\ CallTimeOfDay >= CallTarget =>
              call.result = CallTarget + Day - CallTimeOfDay
        /\ call.result > 0
        /\ call.result =< 86400
        /\ CallTimeOfDay + 3600 = CallTarget => call.result = 3600
        /\ CallTimeOfDay = CallTarget + 3600 => call.result = 82800

\* the call was made exactly at the target: a full day
C11_Witness ==
    /\ call.pc = "waited"
    /\ call.hour = 3 /\ call.minute = 0 /\ call.tz_offset_hours = 9
    /\ CallTimeOfDay = CallTarget
    /\ call.result = 86400

(***************************************************************************)
(* Properties of the identity parser (SpecParse)                           *)
(***************************************************************************)
HashCount(s) == Cardinality({k \in DOMAIN s : s[k] = "#"})
Blank(s) == \A k \in DOMAIN s : IsSpace(s[k])
FirstHash(s) ==
    CHOOSE k \in DOMAIN s : s[k] = "#" /\ \A j \in 1..(k - 1) : s[j] # "#"

\* e is s without its leading and trailing white space
IsTrimOf(e, s) ==
    IF Blank(s)
    THEN e = <<>>
    ELSE /\ e # <<>>
         /\ ~IsSpace(e[1])
         /\ ~IsSpace(e[Len(e)])
         /\ \E i \in 0..(Len(s) - Len(e)) :
               /\ SubSeq(s, i + 1, i + Len(e)) = e
               /\ Blank(SubSeq(s, 1, i))
               /\ Blank(SubSeq(s, i + Len(e) + 1, Len(s)))

\* C17: parse_riot_id returns (none, none) for every token that is empty
\* after trim or contains no '#'; for a token with exactly one '#' it
\* returns the trimmed text before it and the trimmed text after it:
\* 'Faker#KR1' gives ('Faker', 'KR1') and '#onlytag' gives ('', 'onlytag').
C17_ParseOneSeparator ==
    call.pc = "parsed" =>
        /\ (Blank(call.line) \/ HashCount(call.line) = 0) =>
              call.result = <<None, None>>
        /\ HashCount(call.line) = 1 =>
              LET p == FirstHash(call.line) IN
              /\ IsTrimOf(call.result[1], SubSeq(call.line, 1, p - 1))
              /\ IsTrimOf(call.result[2],
                          SubSeq(call.line, p + 1, Len(call.line)))
        /\ call.line = TokenFaker =>
              call.result = <<<<"F","a","k","e","r">>, <<"K","R","1">>>>
        /\ call.line = TokenOnlyTag =>
              call.result = <<<<>>, <<"o","n","l","y","t","a","g">>>>

\* a token with white space around its parts and around the separator
C17_Witness ==
    /\ call.pc = "parsed"
    /\ call.line = <<" ", "a", " ", "#">>
    /\ call.result = <<<<"a">>, <<>>>>

\* C18: for every token containing '#', parse_riot_id splits on the first
\* '#' only: the name is the (trimmed) text before the first '#' and the tag
\* is all of the (trimmed) text after it, further '#' included.
C18_SplitOnFirstSeparatorOnly ==
    (call.pc = "parsed" /\ HashCount(call.line) >= 1) =>
        LET p == FirstHash(call.line) IN
        /\ IsTrimOf(call.result[1], SubSeq(call.line, 1, p - 1))
        /\ IsTrimOf(call.result[2], SubSeq(call.line, p + 1, Len(call.line)))

(***************************************************************************)
(* Properties of the roster store (SpecRoster)                             *)
(***************************************************************************)
\* the tests of the parsing rule, read off the characters of a line
FirstNonSpace(ln) ==
    CHOOSE k \in DOMAIN ln : ~IsSpace(ln[k]) /\ Blank(SubSeq(ln, 1, k - 1))
IsRosterLine(ln) ==
    /\ ~Blank(ln)
    /\ HashCount(ln) >= 1
    /\ ln[FirstNonSpace(ln)] # "#"

\* how many of the first k lines the parsing rule keeps
KeptAmong(lines, k) ==
    Cardinality({j \in 1..k : IsRosterLine(lines[j])})

\* list holds, in file order, the trimmed lines the parsing rule keeps
IsRosterOf(list, lines) ==
    /\ Len(list) = KeptAmong(lines, Len(lines))
    /\ \A k \in DOMAIN lines :
          IsRosterLine(lines[k]) =>
              IsTrimOf(list[KeptAmong(lines, k)], lines[k])

\* the load of this step read the file and stored what it read
LoadStores ==
    auto.pc = "load" /\ auto.ld.pc = "close" /\ auto'.out = "returned"

\* C12: after a successful load the cached entries are exactly the trimmed
\* lines of the roster file, in file order, that are non-empty after trim,
\* contain '#' and do not start with '#'; no line that is empty after trim,
\* starts with '#' or lacks '#' is ever in the cache.
C12_CacheIsFilteredFile ==
    [][/\ (auto.pc = "load" /\ auto.ld.pc = "read" /\ auto'.ld.pc = "close")
            => auto'.ld.lines = file.lines
       /\ LoadStores => IsRosterOf(_id_list', auto.ld.lines)
       /\ \A k \in DOMAIN _id_list' :
             /\ IsRosterLine(_id_list'[k])
             /\ IsTrimOf(_id_list'[k], _id_list'[k])]_vars

\* a file with every kind of line has been loaded
C12_Witness ==
    /\ auto.out = "returned" /\ auto.reads = 1
    /\ file.lines = <<LineNoSeparator, LineEmptyTag, LineIndentedComment,
                      EntryB, LineTwoSeparators>>
    /\ _id_list = <<<<"A","#">>, EntryB, LineTwoSeparators>>
    /\ Version(file) = auto.ver

\* the name part and the tag part of a cached entry
NamePart(e) == SubSeq(e, 1, FirstHash(e) - 1)
TagPart(e) == SubSeq(e, FirstHash(e) + 1, Len(e))

\* C13 as stated: every entry held in the roster cache contains exactly one
\* '#' and has a non-empty name part and a non-empty tag part after
\* trimming.
C13_EntriesAreNameAndTag ==
    \A k \in DOMAIN _id_list :
        /\ HashCount(_id_list[k]) = 1
        /\ ~Blank(NamePart(_id_list[k]))
        /\ ~Blank(TagPart(_id_list[k]))

\* C13 as amended: every entry held in the roster cache contains at least
\* one '#' and has a non-empty name part (the text before the first '#')
\* after trimming; the tag part may be empty and may hold further '#'.
C13_EntriesHaveNameAndSeparator ==
    \A k \in DOMAIN _id_list :
        /\ HashCount(_id_list[k]) >= 1
        /\ ~Blank(NamePart(_id_list[k]))

\* the cache holds an entry with an empty tag and one with two separators
C13_Witness ==
    /\ \E k \in DOMAIN _id_list :
          HashCount(_id_list[k]) = 1 /\ Blank(TagPart(_id_list[k]))
    /\ \E k \in DOMAIN _id_list : HashCount(_id_list[k]) = 2

\* the handler's call of load_id_list has ended
CallEnded == auto.pc = "idle" /\ auto.out # "none"

\* C14: load_id_list reads and re-parses the roster file only when the
\* file's current mtime differs from the cached one; two consecutive calls
\* with no file change in between perform at most one read, and the second
\* leaves the cached entries and mtime unchanged.
C14_ReadsOnlyOnNewMtime ==
    /\ auto.ld.pc \in {"open", "read", "close"} =>
          auto.ld.mtime # _id_list_mtime
    /\ (CallEnded /\ auto.prev.out # "none"
           /\ auto.prev.ver = Version(file)) =>
          /\ auto.prev.reads + auto.reads =< 1
          /\ _id_list = auto.before.list
          /\ _id_list_mtime = auto.before.mtime

\* the first of two calls read the file, the second, with the file as it
\* was, did not
C14_Witness ==
    /\ CallEnded
    /\ auto.prev.out = "returned" /\ auto.prev.reads = 1
    /\ auto.prev.ver = Version(file)
    /\ auto.reads = 0
    /\ _id_list # <<>>

\* C15: when the stat of the roster file fails, load_id_list returns
\* without raising and sets the cached entries to empty and the cached
\* mtime to none; the first call after the file is readable again re-reads
\* the file, even if its mtime equals the one cached before the failure.
C15_StatFailureClearsCache ==
    /\ (CallEnded /\ auto.failed = "stat") =>
          /\ auto.out = "returned"
          /\ _id_list = <<>>
          /\ _id_list_mtime = NoMtime
    /\ (CallEnded /\ auto.out = "returned"
           /\ auto.before.mtime = NoMtime
           /\ auto.ver = Version(file) /\ file.ok /\ file.readable) =>
          /\ auto.reads = 1
          /\ _id_list_mtime = file.mtime

\* the file was loaded, vanished, was seen missing, came back with its old
\* mtime and was read again
C15_Witness ==
    /\ CallEnded
    /\ auto.lost # NoMtime
    /\ auto.lost = _id_list_mtime
    /\ auto.reads = 1
    /\ auto.prev.out = "returned" /\ auto.prev.reads = 0
    /\ _id_list # <<>>

\* C16: when the stat succeeds but opening or reading the roster file
\* fails, load_id_list does not raise to its caller and clears the cache to
\* empty entries with no mtime.
C16_OpenFailureClearsCache ==
    (CallEnded /\ auto.failed \in {"open", "read"}) =>
        /\ auto.out = "returned"
        /\ _id_list = <<>>
        /\ _id_list_mtime = NoMtime

(***************************************************************************)
(* Properties of the scorer (SpecFetch)                                    *)
(***************************************************************************)
\* the weights as the documentation lists them
TierLadder == <<"IRON", "BRONZE", "SILVER", "GOLD", "PLATINUM", "EMERALD",
                "DIAMOND", "MASTER", "GRANDMASTER", "CHALLENGER">>
TierWeightOf(tier) == (CHOOSE k \in DOMAIN TierLadder : TierLadder[k] = tier) - 1
Divisions == <<"IV", "III", "II", "I">>
DivisionWeightOf(rank) == CHOOSE k \in DOMAIN Divisions : Divisions[k] = rank

\* the entry of the answer under test that the result is drawn from
IsChosenEntry(e) ==
    \E k \in DOMAIN call.resp.league.entries :
        /\ call.resp.league.entries[k] = e
        /\ e.queue_type = "RANKED_SOLO_5x5"
        /\ \A j \in 1..(k - 1) :
              call.resp.league.entries[j].queue_type # "RANKED_SOLO_5x5"

\* C19: every success result has total_score = tierWeight(tier) * 1000 +
\* divisionWeight(division) * 100 + leaguePoints, with the tier weights
\* IRON=0 .. CHALLENGER=9 and the division weights I=4, II=3, III=2, IV=1;
\* total_score is present on success results only.
C19_ScoreFormula ==
    call.pc = "returned" =>
        /\ ("total_score" \in DOMAIN call.result)
              <=> (call.result.status = "success")
        /\ call.result.status = "success" =>
              \E e \in SoloEntries :
                 /\ IsChosenEntry(e)
                 /\ call.result.tier = e.tier
                 /\ call.result.rank = e.rank
                 /\ call.result.lp = e.league_points
                 /\ call.result.total_score =
                       TierWeightOf(e.tier) * 1000
                       + DivisionWeightOf(e.rank) * 100
                       + e.league_points

\* EMERALD II with 50 league points scores 5350
C19_Witness ==
    /\ call.pc = "returned"
    /\ call.result.status = "success"
    /\ call.result.tier = "EMERALD" /\ call.result.rank = "II"
    /\ call.result.lp = 50
    /\ call.result.total_score = 5350

\* the score get_player_rank gives the standing e
ScoreOfEntry(e) == get_player_rank(<<"B">>, <<"2">>, Standings(<<e>>)).total_score

\* C20: for any two success results A and B with tier(A) higher than
\* tier(B), total_score(A) > total_score(B), for every division and every
\* league-points value either result may carry.
C20_HigherTierScoresHigher ==
    (call.pc = "returned" /\ call.result.status = "success") =>
        \A e \in SoloEntries :
            TierWeightOf(e.tier) < TierWeightOf(call.result.tier) =>
                ScoreOfEntry(e) < call.result.total_score

\* C21: for any two success results A and B of the same tier, division(A)
\* higher than division(B) (I > II > III > IV) implies total_score(A) >
\* total_score(B), for every league-points value either result may carry.
C21_HigherDivisionScoresHigher ==
    (call.pc = "returned" /\ call.result.status = "success") =>
        \A e \in SoloEntries :
            (e.tier = call.result.tier
               /\ DivisionWeightOf(e.rank) < DivisionWeightOf(call.result.rank))
            => ScoreOfEntry(e) < call.result.total_score

(***************************************************************************)
(* Properties of the sort and the renderer (SpecRender)                    *)
(***************************************************************************)
Rendered == call.pc = "rendered"

\* how often x occurs in the sequence s
Occurrences(s, x) == Cardinality({k \in DOMAIN s : s[k] = x})

\* the elements of s that satisfy Test, in the order of s, told by position
\* (list is that selection iff its k-th element is the k-th such element)
IsSelection(list, s, Test(_)) ==
    LET Among(k) == Cardinality({j \in 1..k : Test(s[j])}) IN
    /\ Len(list) = Among(Len(s))
    /\ \A k \in DOMAIN s : Test(s[k]) => list[Among(k)] = s[k]

\* C22: the ranked sequence used for rendering contains exactly the success
\* results of the result set (each once, and no unranked, not-found or
\* error result) and is ordered by total_score non-increasing.
C22_RankedIsSortedSuccesses ==
    Rendered =>
        /\ \A x \in ResultPool :
              Occurrences(call.html.table, x)
                 = IF x.status = "success"
                   THEN Occurrences(call.players, x) ELSE 0
        /\ \A j, k \in DOMAIN call.html.table :
              j < k => call.html.table[j].total_score
                          >= call.html.table[k].total_score

\* three successes came in with the highest score last
C22_Witness ==
    /\ Rendered
    /\ Len(call.players) = 3
    /\ Len(call.html.table) = 2
    /\ call.players[1].status = "error"
    /\ call.players[2].total_score < call.players[3].total_score
    /\ call.html.table[1] = call.players[3]

\* C23: success results with equal total_score appear in the ranked table
\* in the relative order in which they were inserted into the result set;
\* the sort in the scheduler followed by the sort in generate_html preserves
\* that order.
C23_TiesKeepInsertionOrder ==
    Rendered =>
        \A score \in {call.players[k].total_score :
                         k \in {j \in DOMAIN call.players :
                                   call.players[j].status = "success"}} :
            LET Scored(p) == p.status = "success" /\ p.total_score = score
            IN  IsSelection(SelectSeq(call.html.table, Scored),
                            call.players, Scored)

\* two results of equal score, the one named b inserted first, a higher
\* score between them
C23_Witness ==
    /\ Rendered
    /\ Len(call.players) = 3
    /\ call.players[1].status = "success"
    /\ call.players[3].status = "success"
    /\ call.players[2].status = "success"
    /\ call.players[1].game_name = <<"b">>
    /\ call.players[3].game_name = <<"A">>
    /\ call.players[1].total_score = call.players[3].total_score
    /\ call.players[2].total_score > call.players[1].total_score
    /\ call.html.table = <<call.players[2], call.players[1], call.players[3]>>

StatusIs(st) == {k \in DOMAIN call.players : call.players[k].status \in st}
Range(s) == {s[k] : k \in DOMAIN s}

\* C24: generate_html places every result of the result set in exactly one
\* of the three subsets ranked (success), unranked and errored (not_found
\* or error); the three counts of the summary line sum to the size of the
\* result set, and the unranked and errored results keep their relative
\* insertion order.
C24_ThreeWayPartition ==
    Rendered =>
        LET IsUnrankedResult(p) == p.status = "unranked"
            IsErroredResult(p) == p.status \in {"not_found", "error"}
        IN
        /\ \A x \in ResultPool :
              Occurrences(call.html.table, x)
              + Occurrences(call.html.unranked, x)
              + Occurrences(call.html.errors, x)
                 = Occurrences(call.players, x)
        /\ \A k \in DOMAIN call.html.table :
              call.html.table[k].status = "success"
        /\ call.html.stats = <<Len(call.html.table), Len(call.html.unranked),
                               Len(call.html.errors)>>
        /\ call.html.stats[1] + call.html.stats[2] + call.html.stats[3]
              = Len(call.players)
        /\ IsSelection(call.html.unranked, call.players, IsUnrankedResult)
        /\ IsSelection(call.html.errors, call.players, IsErroredResult)

\* an error, a success and a not-found result, in this order
C24_Witness ==
    /\ Rendered
    /\ Len(call.players) = 3
    /\ call.players[1].status = "error"
    /\ call.players[2].status = "success"
    /\ call.players[3].status = "not_found"
    /\ call.html.stats = <<1, 0, 2>>
    /\ call.html.errors = <<call.players[1], call.players[3]>>

\* C25: the document contains the ranked table iff there is at least one
\* success result, the unranked list iff there is at least one unranked
\* result, and the error list iff there is at least one not_found or error
\* result; with no success result and some unranked and error results the
\* table is omitted and both lists are present.
C25_SectionsFollowResults ==
    Rendered =>
        /\ ("table" \in Range(call.html.sections))
              <=> (StatusIs({"success"}) # {})
        /\ ("unranked" \in Range(call.html.sections))
              <=> (StatusIs({"unranked"}) # {})
        /\ ("errors" \in Range(call.html.sections))
              <=> (StatusIs({"not_found", "error"}) # {})
        /\ (StatusIs({"success"}) = {} /\ StatusIs({"unranked"}) # {}
               /\ StatusIs({"not_found", "error"}) # {})
              => call.html.sections = <<"stats", "unranked", "errors">>

\* no success result, an unranked and a not-found one
C25_Witness ==
    /\ Rendered
    /\ StatusIs({"success"}) = {}
    /\ StatusIs({"unranked"}) # {}
    /\ StatusIs({"not_found"}) # {}
    /\ call.html.sections = <<"stats", "unranked", "errors">>

\* the text holds a digit
IsNumeric(text) == \E k \in DOMAIN text : text[k] \in Range(DigitChars)

\* C26: a success result with wins = 0 and losses = 0 is produced and
\* rendered without a division-by-zero failure, and its win rate is
\* rendered in the report as a non-numeric placeholder, not as a number.
C26_NoGamesRendersPlaceholder ==
    Rendered =>
        \A k \in DOMAIN call.html.rows :
            call.html.rows[k].total_games = 0 =>
                ~IsNumeric(call.html.rows[k].win_rate)

\* C27: in the ranked table the win-rate class of a row is 'high' when
\* wins*100 >= 55*(wins+losses), 'medium' when the win rate is at least 50%
\* and below 55%, and 'low' otherwise, for every row with at least one game.
C27_WinRateClass ==
    Rendered =>
        \A k \in DOMAIN call.html.rows :
            LET row == call.html.rows[k]
                games == row.wins + row.losses
            IN  games > 0 =>
                   row.win_rate_class =
                      IF row.wins * 100 >= 55 * games THEN "high"
                      ELSE IF row.wins * 100 >= 50 * games THEN "medium"
                      ELSE "low"

\* rows at exactly 55 percent, at 54 percent and at exactly 50 percent
C27_Witness ==
    /\ Rendered
    /\ \E k \in DOMAIN call.html.rows :
          /\ call.html.rows[k].wins = 11 /\ call.html.rows[k].losses = 9
          /\ call.html.rows[k].win_rate_class = "high"
    /\ \E k \in DOMAIN call.html.rows :
          /\ call.html.rows[k].wins = 27 /\ call.html.rows[k].losses = 23
          /\ call.html.rows[k].win_rate_class = "medium"
    /\ \E k \in DOMAIN call.html.rows :
          /\ call.html.rows[k].wins = 1 /\ call.html.rows[k].losses = 1
          /\ call.html.rows[k].win_rate_class = "medium"

\* the prefix test of the claim, character by character
IsPrefixMatch(s, current) ==
    /\ Len(current) =< Len(s)
    /\ \A k \in DOMAIN current : LowerChar(s[k]) = LowerChar(current[k])

MatchesOf(current) ==
    {k \in DOMAIN _id_list : IsPrefixMatch(_id_list[k], current)}

\* the position in the cache of the k-th entry matching the prefix
KthMatch(current, k) ==
    CHOOSE i \in MatchesOf(current) :
        Cardinality({j \in MatchesOf(current) : j =< i}) = k

\* C28: autocomplete_ids(prefix) returns, in roster order, the first 25 (or
\* all, if fewer) cached entries whose lower-cased text starts with the
\* lower-cased prefix, and the first 25 cached entries when the prefix is
\* empty; the result never has more than 25 items and never omits an
\* earlier matching entry while including a later one.
C28_FirstTwentyFiveMatches ==
    (CallEnded /\ auto.out = "returned") =>
        LET found == Cardinality(MatchesOf(auto.current))
        IN  /\ Len(auto.suggestions) = IF found > 25 THEN 25 ELSE found
            /\ Len(auto.suggestions) =< 25
            /\ \A k \in DOMAIN auto.suggestions :
                  auto.suggestions[k] = _id_list[KthMatch(auto.current, k)]
            /\ auto.current = <<>> =>
                  auto.suggestions
                     = SubSeq(_id_list, 1, IF Len(_id_list) > 25 THEN 25
                                           ELSE Len(_id_list))

\* 26 entries match the prefix "a" in a cache of 27; the second entry does
\* not match, the 25 returned are the entries 1 and 3..26
C28_Witness ==
    /\ CallEnded /\ auto.out = "returned"
    /\ auto.current = <<"a">>
    /\ Cardinality(MatchesOf(auto.current)) = 26
    /\ Len(auto.suggestions) = 25
    /\ ~IsPrefixMatch(_id_list[2], auto.current)
    /\ auto.suggestions[25] = _id_list[26]

(***************************************************************************)
(* Properties of the shared roster store (SpecShared)                      *)
(***************************************************************************)
\* the step in which a suggestion query builds its answer
QueryAnswers ==
    /\ auto.pc = "load" /\ auto'.pc = "idle"
    /\ auto'.out = "returned" /\ auto'.failed = "none"

\* the step in which a suggestion query's load_id_list gets the lines
QueryReads ==
    auto.pc = "load" /\ auto.ld.pc = "read" /\ auto'.ld.pc = "close"

\* a cache tagged with the file's present mtime holds the file's present
\* roster
CacheCurrent ==
    _id_list_mtime = file.mtime => IsRosterOf(_id_list, file.lines)

\* some other caller of load_id_list is past its stat, with an mtime older
\* than m in hand
StaleLoadInFlight(m) ==
    \/ /\ task[1].pc = "load"
       /\ task[1].ld.pc \in {"open", "read", "close"}
       /\ task[1].ld.mtime < m
    \/ /\ ready[1].pc = "load"
       /\ ready[1].ld.pc \in {"open", "read", "close"}
       /\ ready[1].ld.mtime < m

\* C29: a suggestion query that starts after a change of the readable
\* roster file computes its suggestions from roster content at least as new
\* as that change, under every interleaving with the loads of other callers
\* (the scheduled run, on_ready, other queries): it answers either from the
\* lines it read itself during the query, or from a cache that holds the
\* file's present content.
C29_QuerySeesTheChange ==
    /\ []CacheCurrent
    /\ [][/\ QueryReads => auto'.ld.lines = file.lines
          /\ QueryAnswers =>
               LET Matches(e) == IsPrefixMatch(e, auto.current)
                   found == SelectSeq(_id_list', Matches)
               IN  /\ IF auto.ld.pc = "close"
                      THEN IsRosterOf(_id_list', auto.ld.lines)
                      ELSE IsRosterOf(_id_list', file.lines)
                   /\ auto'.suggestions
                         = SubSeq(found, 1, IF Len(found) > 25 THEN 25
                                            ELSE Len(found))]_vars

\* a query that began after the second version of the file was written has
\* answered from that version while another caller's load, begun under the
\* first version, is still in flight
C29_Witness ==
    /\ CallEnded /\ auto.out = "returned" /\ auto.failed = "none"
    /\ auto.ver[1] >= 2
    /\ StaleLoadInFlight(auto.ver[1])
    /\ file.lines = <<EntryB, LineComment, EntryA>>
    /\ auto.current = <<"B">>
    /\ auto.suggestions = <<EntryB>>

WorkPcs == {"gather", "chunk_sleep", "write", "publish"}
LookupWorks ==
    \/ call.pc = "fetch"
    \/ /\ call.pc = "replied"
       /\ call.reply.kind \in {"not_found", "error", "embed"}

\* while the file keeps its first version, whoever has loaded the roster has
\* left the cache tagged with that version
Loaded == file.mtime = 1 => _id_list_mtime = 1

Unparsed(line) == parse_riot_id(line) = <<None, None>>

\* C31: in a batch run an entry for which parse_riot_id returns
\* (None, None) is skipped: no remote call is made for it and no result for
\* it is added to the result set. In fetch_all_data such lines are passed
\* over; in the bot's scheduled run no entry of the roster is of this kind.
C31_UnparsedEntrySkipped ==
    /\ call.pc \in {"cli", "cli_done"} =>
          LET unparsed == {k \in 1..call.idx : Unparsed(call.lines[k])}
          IN  /\ \A j \in DOMAIN call.fetched :
                    /\ call.fetched[j] # <<None, None>>
                    /\ \E k \in 1..call.idx :
                          parse_riot_id(call.lines[k]) = call.fetched[j]
              /\ Len(call.players_data) = Len(call.fetched)
              /\ \A j \in DOMAIN call.players_data :
                    IdentityOf(call.players_data[j]) = call.fetched[j]
              /\ Len(call.fetched) =< call.idx - Cardinality(unparsed)
    /\ \A t \in TaskIds :
          /\ \A k \in DOMAIN task[t].roster : ~Unparsed(task[t].roster[k])
          /\ \A w \in BagToSet(task[t].inflight) : ~Unparsed(w.entry)
          /\ \A k \in DOMAIN task[t].collected :
                IdentityOf(task[t].collected[k]) # <<None, None>>

\* fetch_all_data has gone through a file whose first line has no
\* separator: two of its five lines were fetched
C31_Witness ==
    /\ call.pc = "cli_done"
    /\ call.idx = 5
    /\ Unparsed(call.lines[1])
    /\ call.fetched = <<parse_riot_id(EntryB), parse_riot_id(EntryA)>>
    /\ Len(call.players_data) = 2

(***************************************************************************)
(* Progress of the batch (SpecLive)                                        *)
(***************************************************************************)
InBatch(t) == task[t].pc \in {"gather", "chunk_sleep"}

\* C32: assuming every individual fetch eventually returns, a batch run
\* once started eventually completes all of its chunks and reaches
\* rendering, and nothing cancels or aborts it on the way; a fetch that has
\* not returned keeps its chunk, and with it the run and every later
\* scheduled run, from going on.
C32_BatchRunsToRender ==
    /\ \A t \in TaskIds : InBatch(t) ~> (task[t].pc = "write")
    /\ [](\A t \in TaskIds :
            task[t].pc = "write" =>
               /\ InFlight(t) = 0
               /\ task[t].i + chunk_size >= task[t].n
               /\ Len(task[t].collected) = task[t].n)
    /\ [][\A t \in TaskIds :
            /\ InBatch(t) =>
                  /\ task'[t].pc \in {"gather", "chunk_sleep", "write"}
                  /\ task'[t].started = task[t].started
            /\ (task[t].pc = "gather"
                   /\ BagCardinality(task'[t].inflight) > 0) =>
                  /\ task'[t].pc = "gather"
                  /\ task'[t].i = task[t].i
                  /\ ~RunStarts]_vars

\* the second run of the loop has reached its render after two chunks
C32_Witness ==
    /\ task[1].pc = "write"
    /\ task[1].started = 2
    /\ Len(task[1].roster) > chunk_size
    /\ Len(task[1].collected) = Len(task[1].roster)

(***************************************************************************)
(* One run from the roster file to the report (SpecEndToEnd)               *)
(***************************************************************************)
NamesOf(players) ==
    [k \in DOMAIN players |->
        players[k].game_name \o <<"#">> \o players[k].tag_line]

\* C33: end to end, for a roster file with A#1, B#2, a comment line, a
\* blank line and C#3, where A is ranked CHALLENGER I with 50 LP, B has no
\* solo-queue standing and C is not found: the ranked table of the rendered
\* document has exactly one row, A#1 with score 9450, the unranked list is
\* exactly B#2 and the error list is exactly C#3 under the generic label;
\* when C fails with another error the item shows the carried message.
C33_FileToReport ==
    task[1].pc \in {"write", "publish", "sleep24"} =>
       LET html == task[1].html
       IN  /\ task[1].roster \in {<<EntryA, EntryB2, EntryC3>>,
                                  <<EntryC3, EntryB2, EntryA>>}
           /\ Len(html.rows) = 1
           /\ html.rows[1].name = EntryA
           /\ html.rows[1].tier = "CHALLENGER"
           /\ html.rows[1].lp = 50
           /\ NamesOf(html.table) = <<EntryA>>
           /\ html.table[1].total_score = 9450
           /\ NamesOf(html.unranked) = <<EntryB2>>
           /\ NamesOf(html.errors) = <<EntryC3>>
           /\ Len(html.error_items) = 1
           /\ html.error_items[1].name = EntryC3
           /\ html.error_items[1].error_msg =
                 IF remote[parse_riot_id(EntryC3)] = RespNotFound
                 THEN <<"not_found_label">> ELSE RespError.league.msg
           /\ html.sections = <<"stats", "table", "unranked", "errors">>
           /\ task[1].pc # "write" => report.html = html

\* the report of a run in which C#3 failed with a timeout has been written
C33_Witness ==
    /\ task[1].pc = "publish"
    /\ file.lines = <<EntryA, EntryB2, LineComment, LineBlank, EntryC3>>
    /\ remote[parse_riot_id(EntryC3)] = RespError
    /\ report.html.error_items[1].error_msg = MsgTimeout
    /\ report.html.table[1].total_score = 9450

(***************************************************************************)
(* A batch run beside suggestion queries (SpecReload)                      *)
(***************************************************************************)
\* how often the entry is on the roster
EntriesOf(roster, entry) ==
    Cardinality({k \in DOMAIN roster : roster[k] = entry})

\* how many results were fetched for the entry
ResultsOf(results, entry) ==
    Cardinality({k \in DOMAIN results :
                    results[k].game_name \o <<"#">> \o results[k].tag_line
                       = entry})

\* C34: the entries fetched by one run are exactly the roster as it was
\* loaded at the start of that run, each once, even when a suggestion query
\* reloads or clears the cache between or inside chunks: no chunk comes from
\* another version of the roster, no entry is fetched twice, no tail is lost.
C34_FetchesTheRosterAsLoaded ==
    \A t \in TaskIds : \A entry \in {EntryA, EntryB} :
       /\ ResultsOf(task[t].collected, entry)
             =< EntriesOf(task[t].roster, entry)
       /\ task[t].pc = "write" =>
             ResultsOf(task[t].collected, entry)
                = EntriesOf(task[t].roster, entry)

(***************************************************************************)
(* Racing loads of the roster (SpecShared)                                 *)
(***************************************************************************)
\* no call of load_id_list is under way
NoLoadInProgress ==
    /\ auto.pc # "load"
    /\ \A r \in ReadyIds : ready[r].pc # "load"
    /\ \A t \in TaskIds : task[t].pc # "load"

\* C35: under every interleaving of concurrent load_id_list calls with
\* changes of the file (each giving it a new mtime), whenever no load is in
\* progress and the cached mtime equals the file's current mtime, the cached
\* entries are the filtered content of the current file; and a racing
\* reload that stores under the file's newest mtime stores that file's
\* content, never an older version.
C35_SettledCacheMatchesFile ==
    /\ [](NoLoadInProgress /\ _id_list_mtime = file.mtime
            => IsRosterOf(_id_list, file.lines))
    /\ [][(/\ <<_id_list, _id_list_mtime>>' # <<_id_list, _id_list_mtime>>
           /\ _id_list_mtime' = file'.mtime)
             => IsRosterOf(_id_list', file'.lines)]_vars

\* the three callers have all loaded, the query having begun under the
\* first version of the file and read it; the cache holds the second
C35_Witness ==
    /\ NoLoadInProgress
    /\ file.mtime = 2 /\ _id_list_mtime = 2
    /\ file.lines = <<EntryB, LineComment, EntryA>>
    /\ _id_list = <<EntryB, EntryA>>
    /\ auto.out = "returned" /\ auto.ver[1] = 1 /\ auto.reads = 1
    /\ ready[1].pc = "done"
    /\ task[1].pc \in WorkPcs

(***************************************************************************)
(* The report file and its publication (Spec)                              *)
(***************************************************************************)
\* the report file holds the document run t rendered
HoldsRenderOf(rep, r, t) ==
    rep = [html |-> r.html, by |-> t, run |-> r.started]

\* C36: in every scheduled run the report file is written with that run's
\* render before the publish is attempted; the publish is attempted at most
\* once per run and only after the write; after the run the file holds only
\* that run's document.
C36_WriteThenPublishOnce ==
    /\ [](\A t \in TaskIds :
            /\ task[t].pc = "publish" => HoldsRenderOf(report, task[t], t)
            /\ (task[t].pc = "sleep24" /\ task[t].started >= 1) =>
                  /\ HoldsRenderOf(report, task[t], t)
                  /\ task[t].pub \in {"sent", "failed", "unset"})
    /\ [][\A t \in TaskIds :
            /\ (task[t].pc # "publish" /\ task'[t].pc = "publish") =>
                  /\ task[t].pc = "write"
                  /\ task'[t].started = task[t].started
                  /\ HoldsRenderOf(report', task[t], t)
            /\ (task[t].pc = "publish" /\ task'[t].pc # "publish") =>
                  /\ task'[t].pc = "sleep24"
                  /\ task'[t].pub \in {"sent", "failed"}
                  /\ task'[t].started = task[t].started
                  /\ report' = report
            /\ report' # report =>
                  \E u \in TaskIds :
                     /\ task[u].pc = "write"
                     /\ HoldsRenderOf(report', task[u], u)]_vars

\* the second run of a loop has written its document over the first run's
\* and is at its publish
C36_Witness ==
    /\ task[1].pc = "publish"
    /\ task[1].started = 2
    /\ report.run = 2 /\ report.by = 1
    /\ report.html = task[1].html

(***************************************************************************)
(* The replies of the /rank command (SpecLookup)                           *)
(***************************************************************************)
\* the invocation is under way: deferred, no reply sent yet
Answering == call.pc \in {"defer", "fetch"}

\* C37: rank_command sends exactly one reply per invocation: the format
\* error message, without any remote call, when the input has no '#'; the
\* not-found message for a not_found result; an error message that contains
\* the carried message for an error result; a summary card for an unranked
\* or a success result.
C37_OneReplyPerInvocation ==
    /\ [](/\ Answering => call.reply.kind = "none"
          /\ call.pc = "fetch" => Contains(<<"#">>, call.game_id)
          /\ call.pc = "replied" =>
                IF ~Contains(<<"#">>, call.game_id)
                THEN /\ call.reply = [kind |-> "format"]
                     /\ call.id = <<None, None>>
                ELSE LET data == get_player_rank(call.id[1], call.id[2],
                                                 remote[call.id])
                     IN  /\ call.id = parse_riot_id(call.game_id)
                         /\ data.status = "not_found" =>
                               call.reply = [kind |-> "not_found",
                                             game_id |-> call.game_id]
                         /\ data.status = "error" =>
                               /\ call.reply.kind = "error"
                               /\ call.reply.error = data.error
                         /\ data.status \in {"unranked", "success"} =>
                               /\ call.reply.kind = "embed"
                               /\ call.reply.title
                                     = data.game_name \o <<"#">>
                                          \o data.tag_line
                         /\ data.status \in {"not_found", "error",
                                              "unranked", "success"})
    /\ [][/\ (call.pc = "defer" /\ call'.pc # "defer") =>
                IF Contains(<<"#">>, call.game_id)
                THEN call'.pc = "fetch"
                ELSE call'.pc = "replied" /\ call'.reply.kind = "format"
          /\ (call.pc = "fetch" /\ call'.pc # "fetch") =>
                call'.pc = "replied" /\ call'.reply.kind # "none"
          /\ (call.pc = "replied" /\ call' # call) =>
                call'.pc = "defer" /\ call'.reply.kind = "none"]_vars

\* a lookup whose fetch timed out has been answered with the message of
\* the timeout
C37_Witness ==
    /\ call.pc = "replied"
    /\ call.game_id = EntryA
    /\ remote[parse_riot_id(EntryA)] = RespError
    /\ call.reply = [kind |-> "error", error |-> MsgTimeout]

====
